---- MODULE Spec2Model ----
(***************************************************************************)
(* Verification model of the booking console: the Postgres schema with its *)
(* row level security policies and foreign keys (supabase/migrations and   *)
(* the loose SQL scripts), and the client handlers that write through it   *)
(* (Bookings, Register, Staff, AuthContext).                               *)
(***************************************************************************)
EXTENDS Integers, FiniteSets, Sequences, TLC

\* Bounds of the model.
MaxScripts == 4        \* SQL scripts run in one behaviour
GenericRows == 1       \* rows per table written by the direct API requests
MaxBookings == 2       \* bookings rows in the booking flow
MaxInvites == 1        \* staff_invites rows
MaxDay == 8            \* days the clock runs
MaxStamp == 2          \* days the clock runs beside the status select
MaxServices == 2       \* services rows

VARIABLES
  applied,           \* SQL scripts that have been run against the database
  tables,            \* tables that exist
  rls,               \* table -> row level security enabled
  policies,          \* the policies in force (records, see Pol)
  users,             \* public.users: id -> row
  customers,         \* id -> row
  services,          \* id -> row
  staff,             \* id -> row
  bookings,          \* id -> row
  payments,          \* id -> row
  booking_settings,  \* id -> row
  business_hours,    \* id -> row
  staff_invites,     \* id -> row
  submit,            \* outcome of the last Bookings.handleSubmit
  form,              \* formData, error and submitting of the open page
  now,               \* the clock that new Date() reads, in days
  accounts,          \* auth.users: the accounts supabase.auth.signUp made
  reg,               \* Register page -> position in handleSubmit
  session,           \* the auth session of the browser: a users id or NULL
  user,              \* AuthProvider's user state: a users id or NULL
  fetches,           \* profile requests of onAuthStateChange not yet answered
  call               \* position of the running signIn

dbVars == <<users, customers, services, staff, bookings, payments,
            booking_settings, business_hours, staff_invites>>
migVars == <<applied, tables, rls, policies>>
regVars == <<now, accounts, reg>>
authVars == <<session, user, fetches, call>>

-----------------------------------------------------------------------------
(* Roles and policy records                                                *)

Anon == "anon"
NULL == 0
Businesses == {1, 2}

BothRoles == {"anon", "authenticated"}
AuthOnly == {"authenticated"}
AnonOnly == {"anon"}

\* One CREATE POLICY statement. using/check name the predicate of the
\* USING / WITH CHECK clause; "none" is an absent clause.
Pol(t, n, c, r, u, w) ==
  [table |-> t, name |-> n, cmd |-> c, roles |-> r, using |-> u, check |-> w]

CoreTables ==
  {"users", "businesses", "services", "business_hours", "staff",
   "staff_schedules", "time_offs", "customers", "bookings", "payments",
   "booking_settings"}

AppTables == CoreTables \cup {"staff_invites"}

CorePolicies ==
  { Pol("users", "Users can view own profile", "SELECT", AuthOnly, "self", "none"),
    Pol("users", "Users can update own profile", "UPDATE", AuthOnly, "self", "self"),
    Pol("users", "Business owners can view their staff", "SELECT", AuthOnly, "owner", "none"),
    Pol("businesses", "Business owners can view their business", "SELECT", AuthOnly, "member", "none"),
    Pol("businesses", "Business owners can update their business", "UPDATE", AuthOnly, "owner", "owner"),
    Pol("businesses", "Anyone can view businesses for booking", "SELECT", AnonOnly, "true", "none"),
    Pol("businesses", "New business owners can create businesses", "INSERT", AuthOnly, "none", "is_owner"),
    Pol("services", "Business members can view their services", "SELECT", AuthOnly, "member", "none"),
    Pol("services", "Public can view active services", "SELECT", AnonOnly, "is_active", "none"),
    Pol("services", "Business owners can manage services", "ALL", AuthOnly, "owner", "owner"),
    Pol("business_hours", "Anyone can view business hours", "SELECT", BothRoles, "true", "none"),
    Pol("business_hours", "Business owners can manage business hours", "ALL", AuthOnly, "owner", "owner"),
    Pol("staff", "Business members can view staff", "SELECT", AuthOnly, "member", "none"),
    Pol("staff", "Public can view active staff", "SELECT", AnonOnly, "is_active", "none"),
    Pol("staff", "Business owners can manage staff", "ALL", AuthOnly, "owner", "owner"),
    Pol("staff_schedules", "Business members can view staff schedules", "SELECT", AuthOnly, "member", "none"),
    Pol("staff_schedules", "Public can view staff schedules", "SELECT", AnonOnly, "is_available", "none"),
    Pol("staff_schedules", "Business owners and staff can manage schedules", "ALL", AuthOnly, "owner_or_self", "owner_or_self"),
    Pol("time_offs", "Business members can view time offs", "SELECT", AuthOnly, "member", "none"),
    Pol("time_offs", "Staff can create time off requests", "INSERT", AuthOnly, "none", "self"),
    Pol("time_offs", "Business owners can manage time offs", "ALL", AuthOnly, "owner", "owner"),
    Pol("customers", "Business members can view their customers", "SELECT", AuthOnly, "member", "none"),
    Pol("customers", "Business members can manage customers", "ALL", AuthOnly, "member", "member"),
    Pol("bookings", "Business members can view their bookings", "SELECT", AuthOnly, "member", "none"),
    Pol("bookings", "Business members can manage bookings", "ALL", AuthOnly, "member", "member"),
    Pol("bookings", "Public can create bookings", "INSERT", AnonOnly, "none", "true"),
    Pol("payments", "Business members can view their payments", "SELECT", AuthOnly, "member", "none"),
    Pol("payments", "Business members can manage payments", "ALL", AuthOnly, "member", "member"),
    Pol("booking_settings", "Business members can view their booking settings", "SELECT", AuthOnly, "member", "none"),
    Pol("booking_settings", "Public can view booking settings", "SELECT", AnonOnly, "true", "none"),
    Pol("booking_settings", "Business owners can manage booking settings", "ALL", AuthOnly, "owner", "owner") }

-----------------------------------------------------------------------------
(* The SQL scripts.  Each is a record:                                     *)
(*   needs   tables the script alters (it aborts when one is missing)      *)
(*   makes   tables it creates                                             *)
(*   dropAll tables whose policies it drops by a loop over pg_policy       *)
(*   drops   <<table, name>> of its DROP POLICY IF EXISTS statements       *)
(*   flags   its ALTER TABLE ... ENABLE/DISABLE ROW LEVEL SECURITY         *)
(*           statements in file order, <<table, enabled>>                  *)
(*   creates its CREATE POLICY statements                                  *)

UsersDrops(names) == {<<"users", n>> : n \in names}

Script(needs, makes, dropAll, drops, flags, creates) ==
  [needs |-> needs, makes |-> makes, dropAll |-> dropAll, drops |-> drops,
   flags |-> flags, creates |-> creates]

CoreSchema ==
  Script({}, CoreTables, {}, {},
         << <<"users", TRUE>>, <<"businesses", TRUE>>, <<"services", TRUE>>,
            <<"business_hours", TRUE>>, <<"staff", TRUE>>,
            <<"staff_schedules", TRUE>>, <<"time_offs", TRUE>>,
            <<"customers", TRUE>>, <<"bookings", TRUE>>, <<"payments", TRUE>>,
            <<"booking_settings", TRUE>> >>,
         CorePolicies)

FixUsersRlsForAuth ==
  Script({"users"}, {}, {},
         UsersDrops({"Users can select own profile by id", "Users can view own profile",
                     "Users can select own profile", "Users can insert own profile",
                     "Users can update own profile", "Business owners can view their staff",
                     "enable_read_for_authenticated_users",
                     "Allow all operations during development",
                     "enable_insert_for_own_profile", "enable_update_for_own_profile",
                     "Allow read access to authenticated users",
                     "Allow users to insert their own profile",
                     "Allow users to update their own profile"}),
         << <<"users", TRUE>> >>,
         { Pol("users", "Users can select own profile", "SELECT", AuthOnly, "self", "none"),
           Pol("users", "Users can insert own profile", "INSERT", AuthOnly, "none", "self"),
           Pol("users", "Users can update own profile", "UPDATE", AuthOnly, "self", "self"),
           Pol("users", "Business owners can view their staff", "SELECT", AuthOnly, "owner", "none") })

FixRlsNoRecursion ==
  Script({"users"}, {}, {"users"}, {},
         << <<"users", TRUE>> >>,
         { Pol("users", "Users can select own profile", "SELECT", AuthOnly, "self", "none"),
           Pol("users", "Users can insert own profile", "INSERT", AuthOnly, "none", "self"),
           Pol("users", "Users can update own profile", "UPDATE", AuthOnly, "self", "self") })

SimplifyRlsPolicies ==
  Script({"users"}, {}, {},
         UsersDrops({"Enable full access to authenticated users", "Allow public read"}),
         << <<"users", FALSE>>, <<"users", TRUE>> >>,
         { Pol("users", "Enable read access for all users", "SELECT", BothRoles, "true", "none"),
           Pol("users", "Enable write access for own profile", "UPDATE", BothRoles, "self", "none"),
           Pol("users", "Enable insert for new profiles", "INSERT", BothRoles, "none", "self") })

OldUsersPolicyNames ==
  {"Enable read access for all users", "Enable write access for own profile",
   "Enable insert for new profiles", "Users can read own profile",
   "Users can update own profile", "Allow new profile creation"}

FixInfiniteRecursion ==
  Script({"users"}, {}, {}, UsersDrops(OldUsersPolicyNames),
         << <<"users", FALSE>>, <<"users", TRUE>> >>,
         { Pol("users", "Users can read own profile", "SELECT", BothRoles, "signed_in", "none"),
           Pol("users", "Users can update own profile", "UPDATE", BothRoles, "self", "self"),
           Pol("users", "Allow new profile creation", "INSERT", BothRoles, "none", "self") })

FixRlsPoliciesAgain ==
  Script({"users"}, {}, {},
         UsersDrops(OldUsersPolicyNames \cup {"Enable full access to authenticated users"}),
         << <<"users", FALSE>>, <<"users", TRUE>> >>,
         { Pol("users", "Allow read access to authenticated users", "SELECT", BothRoles, "signed_in", "none"),
           Pol("users", "Allow users to insert their own profile", "INSERT", BothRoles, "none", "self"),
           Pol("users", "Allow users to update their own profile", "UPDATE", BothRoles, "self", "self") })

FullAccessToAuthenticated ==
  Script({"users"}, {}, {}, UsersDrops(OldUsersPolicyNames),
         << <<"users", FALSE>>, <<"users", TRUE>> >>,
         { Pol("users", "Enable full access to authenticated users", "ALL", BothRoles, "signed_in", "signed_in") })

AllowAllDuringDevelopment ==
  Script({"users"}, {}, {},
         UsersDrops({"Users can read own profile", "Users can update own profile",
                     "Users can create their profile once",
                     "Users can insert their own profile",
                     "Enable read access for all users",
                     "Enable insert for authenticated users only",
                     "Enable update for users based on email"}),
         << <<"users", TRUE>> >>,
         { Pol("users", "Allow all operations during development", "ALL", BothRoles, "true", "true") })

FixPermissionsForAuthFlow ==
  Script({"users"}, {}, {},
         UsersDrops({"Public can read user data", "Users can insert own data",
                     "Users can read own data", "Users can update own data",
                     "Business staff can read their customers",
                     "Allow public read for auth"}),
         << >>,
         { Pol("users", "Allow public email check", "SELECT", AnonOnly, "true", "none"),
           Pol("users", "Allow users to insert their own record", "INSERT", AuthOnly, "none", "self"),
           Pol("users", "Allow users to read own record", "SELECT", AuthOnly, "self", "none"),
           Pol("users", "Allow users to update own record", "UPDATE", AuthOnly, "self", "none"),
           Pol("users", "Allow staff to read business users", "SELECT", AuthOnly, "member", "none") })

EnableRlsOnUsers ==
  Script({"users", "businesses", "services", "bookings", "customers", "booking_settings"},
         {}, {}, {},
         << <<"users", TRUE>>, <<"businesses", TRUE>>, <<"services", TRUE>>,
            <<"bookings", TRUE>>, <<"customers", TRUE>>, <<"booking_settings", TRUE>> >>,
         { Pol("users", "Users can read own data", "SELECT", BothRoles, "self", "none"),
           Pol("users", "Users can update own data", "UPDATE", BothRoles, "self", "none"),
           Pol("users", "Business staff can read their customers", "SELECT", BothRoles, "member", "none"),
           Pol("users", "Allow public read for auth", "SELECT", BothRoles, "true", "none"),
           Pol("businesses", "Business owners can manage their business", "ALL", BothRoles, "owner", "none"),
           Pol("businesses", "Staff can read business data", "SELECT", BothRoles, "member", "none"),
           Pol("businesses", "Public can read business info", "SELECT", BothRoles, "true", "none") })

AllowAllReads ==
  Script({"users"}, {}, {},
         UsersDrops(OldUsersPolicyNames \cup {"Enable full access to authenticated users"}),
         << <<"users", FALSE>>, <<"users", TRUE>> >>,
         { Pol("users", "Allow all reads", "SELECT", BothRoles, "true", "none") })

DisableAndReenableRls ==
  Script({"users", "businesses", "services", "bookings", "customers", "booking_settings"},
         {}, {},
         UsersDrops({"Users can read own data", "Users can update own data",
                     "Business staff can read their customers",
                     "Allow public read for auth"})
           \cup { <<"businesses", "Business owners can manage their business">>,
                  <<"businesses", "Staff can read business data">>,
                  <<"businesses", "Public can read business info">> },
         << <<"users", FALSE>>, <<"businesses", FALSE>>, <<"services", FALSE>>,
            <<"bookings", FALSE>>, <<"customers", FALSE>>,
            <<"booking_settings", FALSE>>, <<"users", TRUE>> >>,
         { Pol("users", "Users can read own data", "SELECT", AuthOnly, "self", "none"),
           Pol("users", "Users can update own data", "UPDATE", AuthOnly, "self", "none"),
           Pol("users", "Public can read user data", "SELECT", AnonOnly, "true", "none"),
           Pol("users", "Users can insert own data", "INSERT", AuthOnly, "none", "self"),
           Pol("users", "Staff can view business users", "SELECT", AuthOnly, "member", "none") })

EnableBasicPolicies ==
  Script({"users"}, {}, {},
         UsersDrops(OldUsersPolicyNames \cup
                    {"Enable full access to authenticated users",
                     "Allow read access to authenticated users",
                     "Allow users to insert their own profile",
                     "Allow users to update their own profile"}),
         << <<"users", FALSE>>, <<"users", TRUE>> >>,
         { Pol("users", "enable_read_for_authenticated_users", "SELECT", BothRoles, "true", "none"),
           Pol("users", "enable_insert_for_own_profile", "INSERT", BothRoles, "none", "self"),
           Pol("users", "enable_update_for_own_profile", "UPDATE", BothRoles, "self", "self") })

CreateStaffInvites ==
  Script({"businesses", "users"}, {"staff_invites"}, {}, {},
         << <<"staff_invites", TRUE>> >>,
         { Pol("staff_invites", "Business owners can manage invites", "ALL", AuthOnly, "owner", "none"),
           Pol("staff_invites", "Anyone can read invite by token", "SELECT", BothRoles, "true", "none") })

MinimalUsersPolicies ==
  Script({"users"}, {}, {"users"}, {},
         << <<"users", TRUE>> >>,
         { Pol("users", "Users can select own profile by id", "SELECT", BothRoles, "self", "none"),
           Pol("users", "Users can insert own profile by id", "INSERT", BothRoles, "none", "self"),
           Pol("users", "Users can update own profile by id", "UPDATE", BothRoles, "self", "self") })

Scripts ==
  [ CoreSchema |-> CoreSchema,
    FixUsersRlsForAuth |-> FixUsersRlsForAuth,
    FixRlsNoRecursion |-> FixRlsNoRecursion,
    SimplifyRlsPolicies |-> SimplifyRlsPolicies,
    FixInfiniteRecursion |-> FixInfiniteRecursion,
    FixRlsPoliciesAgain |-> FixRlsPoliciesAgain,
    FullAccessToAuthenticated |-> FullAccessToAuthenticated,
    AllowAllDuringDevelopment |-> AllowAllDuringDevelopment,
    FixPermissionsForAuthFlow |-> FixPermissionsForAuthFlow,
    EnableRlsOnUsers |-> EnableRlsOnUsers,
    AllowAllReads |-> AllowAllReads,
    DisableAndReenableRls |-> DisableAndReenableRls,
    EnableBasicPolicies |-> EnableBasicPolicies,
    CreateStaffInvites |-> CreateStaffInvites,
    MinimalUsersPolicies |-> MinimalUsersPolicies ]

ScriptNames == DOMAIN Scripts

-----------------------------------------------------------------------------
(* Running one script                                                      *)

\* The flag of table t after the script's ALTER TABLE statements, in order.
RECURSIVE FlagAfter(_, _, _)
FlagAfter(flags, t, cur) ==
  IF flags = << >> THEN cur
  ELSE FlagAfter(Tail(flags), t,
                 IF Head(flags)[1] = t THEN Head(flags)[2] ELSE cur)

KeptPolicies(s) ==
  {p \in policies : p.table \notin s.dropAll /\ <<p.table, p.name>> \notin s.drops}

\* A script runs to its end only when every table it alters exists and no
\* CREATE POLICY meets a policy of that name on that table.
CanRun(s) ==
  /\ s.needs \subseteq tables
  /\ \A c \in s.creates :
       /\ c.table \in tables \cup s.makes
       /\ ~ \E p \in KeptPolicies(s) : p.table = c.table /\ p.name = c.name

\* CREATE TABLE IF NOT EXISTS: a new table starts with row security off.
RunScript(m) ==
  LET s == Scripts[m] IN
  /\ m \notin applied
  /\ Cardinality(applied) < MaxScripts
  /\ CanRun(s)
  /\ applied' = applied \cup {m}
  /\ tables' = tables \cup s.makes
  /\ policies' = KeptPolicies(s) \cup s.creates
  /\ rls' = [t \in AppTables |-> FlagAfter(s.flags, t, rls[t])]

Migrate(m) ==
  /\ RunScript(m)
  /\ UNCHANGED <<dbVars, submit, form, regVars, authVars>>

-----------------------------------------------------------------------------
(* The database: rows, policies applied to a request, constraints          *)

\* The rows of the data tables as one record, so that a request is a
\* function from database to database.
DB ==
  [users |-> users, customers |-> customers, services |-> services,
   staff |-> staff, bookings |-> bookings, payments |-> payments,
   booking_settings |-> booking_settings, business_hours |-> business_hours,
   staff_invites |-> staff_invites]

SetDB(d) ==
  /\ users' = d.users
  /\ customers' = d.customers
  /\ services' = d.services
  /\ staff' = d.staff
  /\ bookings' = d.bookings
  /\ payments' = d.payments
  /\ booking_settings' = d.booking_settings
  /\ business_hours' = d.business_hours
  /\ staff_invites' = d.staff_invites

DataTables ==
  {"customers", "services", "staff", "bookings", "payments",
   "booking_settings", "business_hours"}

Without(f, ids) == [i \in DOMAIN f \ ids |-> f[i]]

\* auth.uid() of a request: a users id, or Anon for the anon key.
RoleOf(a) == IF a = Anon THEN "anon" ELSE "authenticated"

\* SELECT business_id FROM users WHERE id = auth.uid()
MemberBiz(d, a) ==
  IF a \in DOMAIN d.users THEN {d.users[a].business_id} \ {NULL} ELSE {}

\* SELECT business_id FROM users WHERE id = auth.uid() AND role = 'BUSINESS_OWNER'
OwnerBiz(d, a) ==
  IF a \in DOMAIN d.users /\ d.users[a].role = "BUSINESS_OWNER"
  THEN {d.users[a].business_id} \ {NULL} ELSE {}

\* The business a row belongs to; a payment's is that of its booking.
RowBiz(d, t, row) ==
  IF t = "payments"
  THEN IF row.booking_id \in DOMAIN d.bookings
       THEN d.bookings[row.booking_id].business_id ELSE NULL
  ELSE row.business_id

\* The USING / WITH CHECK predicates of the data tables' policies.
Holds(pred, d, a, t, row) ==
  CASE pred = "true" -> TRUE
    [] pred = "is_active" -> row.is_active
    [] pred = "member" -> RowBiz(d, t, row) \in MemberBiz(d, a)
    [] pred = "owner" -> RowBiz(d, t, row) \in OwnerBiz(d, a)
    [] pred = "self" -> a # Anon /\ row.id = a
    [] pred = "signed_in" -> a # Anon
    [] OTHER -> FALSE

Applies(p, a, t, cmd) ==
  /\ p.table = t
  /\ RoleOf(a) \in p.roles
  /\ p.cmd \in {cmd, "ALL"}

\* WITH CHECK of a policy; a policy without one checks its USING clause.
CheckOf(p) == IF p.check = "none" THEN p.using ELSE p.check

\* Without row security every row passes: the tables are granted to the
\* anon and authenticated roles.
PassUsing(d, a, t, cmd, row) ==
  \/ ~rls[t]
  \/ \E p \in policies : Applies(p, a, t, cmd) /\ p.using # "none"
                         /\ Holds(p.using, d, a, t, row)

PassCheck(d, a, t, cmd, row) ==
  \/ ~rls[t]
  \/ \E p \in policies : Applies(p, a, t, cmd) /\ CheckOf(p) # "none"
                         /\ Holds(CheckOf(p), d, a, t, row)

CanSelect(d, a, t, row) == PassUsing(d, a, t, "SELECT", row)

\* What SELECT * FROM t returns to a.
Visible(d, a, t) == {i \in DOMAIN d[t] : CanSelect(d, a, t, d[t][i])}

\* The constraints with payments.booking_id not declared UNIQUE.
ConstraintsOkWithoutUnique(d, t, id, row) ==
  CASE t = "bookings" ->
         /\ row.business_id \in Businesses
         /\ row.customer_id \in DOMAIN d.customers
         /\ row.service_id \in DOMAIN d.services
         /\ row.staff_id = NULL \/ row.staff_id \in DOMAIN d.staff
    [] t = "payments" -> row.booking_id \in DOMAIN d.bookings
    [] t = "booking_settings" ->
         /\ row.business_id \in Businesses
         /\ row.deposit_percentage >= 0 /\ row.deposit_percentage <= 100
         /\ \A j \in DOMAIN d.booking_settings \ {id} :
              d.booking_settings[j].business_id # row.business_id
    [] t = "staff_invites" ->
         /\ row.business_id \in Businesses
         /\ \A j \in DOMAIN d.staff_invites \ {id} :
              d.staff_invites[j].token # row.token
    [] OTHER -> row.business_id \in Businesses

\* Two half-open intervals [start_time, end_time) that share an instant.
Overlaps(r1, r2) == r1.start_time < r2.end_time /\ r2.start_time < r1.end_time

\* The bookings other than id that a booking row collides with: same
\* business, same customer or same assigned staff member, overlapping time.
Conflicts(d, id, row) ==
  {j \in DOMAIN d.bookings \ {id} :
     /\ d.bookings[j].business_id = row.business_id
     /\ \/ d.bookings[j].customer_id = row.customer_id
        \/ row.staff_id # NULL /\ d.bookings[j].staff_id = row.staff_id
     /\ Overlaps(d.bookings[j], row)}

\* The constraints with an exclusion constraint on overlapping bookings.
ConstraintsOkNoOverlap(d, t, id, row) ==
  CASE t = "bookings" ->
         /\ row.business_id \in Businesses
         /\ row.customer_id \in DOMAIN d.customers
         /\ row.service_id \in DOMAIN d.services
         /\ row.staff_id = NULL \/ row.staff_id \in DOMAIN d.staff
         /\ Conflicts(d, id, row) = {}
    [] t = "payments" ->
         /\ row.booking_id \in DOMAIN d.bookings
         /\ \A j \in DOMAIN d.payments \ {id} :
              d.payments[j].booking_id # row.booking_id
    [] OTHER -> ConstraintsOkWithoutUnique(d, t, id, row)

\* Foreign keys, UNIQUE and CHECK constraints of a row that is to be stored
\* under id.
ConstraintsOk(d, t, id, row) ==
  CASE t = "bookings" ->
         /\ row.business_id \in Businesses
         /\ row.customer_id \in DOMAIN d.customers
         /\ row.service_id \in DOMAIN d.services
         /\ row.staff_id = NULL \/ row.staff_id \in DOMAIN d.staff
    [] t = "payments" ->
         /\ row.booking_id \in DOMAIN d.bookings
         /\ \A j \in DOMAIN d.payments \ {id} :
              d.payments[j].booking_id # row.booking_id
    [] t = "booking_settings" ->
         /\ row.business_id \in Businesses
         /\ row.deposit_percentage >= 0 /\ row.deposit_percentage <= 100
         /\ \A j \in DOMAIN d.booking_settings \ {id} :
              d.booking_settings[j].business_id # row.business_id
    [] t = "staff_invites" ->
         /\ row.business_id \in Businesses
         /\ \A j \in DOMAIN d.staff_invites \ {id} :
              d.staff_invites[j].token # row.token
    [] OTHER -> row.business_id \in Businesses

\* gen_random_uuid(): an id no row of the table has.  One payment id more
\* than bookings, so that a second payment of a booking has room.
Capacity(t) ==
  CASE t = "bookings" -> MaxBookings
    [] t = "payments" -> MaxBookings + 1
    [] t = "staff_invites" -> MaxInvites
    [] t = "services" -> MaxServices
    [] OTHER -> MaxBookings + 1
FreeIds(d, t) == (1 .. Capacity(t)) \ DOMAIN d[t]
NewId(d, t) == CHOOSE i \in FreeIds(d, t) : \A j \in FreeIds(d, t) : i <= j

\* The result of a request: the database after it, whether it returned
\* without error, the id of the inserted row, and the rows it changed as
\* <<table, business>> pairs.
Result(d, ok, id, touched) == [db |-> d, ok |-> ok, id |-> id, touched |-> touched]

\* bookings.updated_at: DEFAULT now() on insert, and the trigger
\* update_bookings_updated_at sets it before every update.
Stamped(t, row) == IF t = "bookings" THEN [updated_at |-> now] @@ row ELSE row

Insert(d, a, t, row) ==
  IF FreeIds(d, t) # {} /\ PassCheck(d, a, t, "INSERT", row)
     /\ ConstraintsOk(d, t, NULL, row)
  THEN LET id == NewId(d, t)
           d2 == [d EXCEPT ![t] = (id :> Stamped(t, row)) @@ d[t]]
       IN Result(d2, TRUE, id, {<<t, RowBiz(d2, t, row)>>})
  ELSE Result(d, FALSE, NULL, {})

\* UPDATE t SET ... WHERE id = id: a row the policies hide is not found and
\* the request succeeds on no rows.
Update(d, a, t, id, row) ==
  IF id \in DOMAIN d[t] /\ CanSelect(d, a, t, d[t][id])
     /\ PassUsing(d, a, t, "UPDATE", d[t][id])
  THEN IF PassCheck(d, a, t, "UPDATE", row) /\ ConstraintsOk(d, t, id, row)
       THEN Result([d EXCEPT ![t][id] = Stamped(t, row)], TRUE, id,
                   IF Stamped(t, row) = d[t][id] THEN {}
                   ELSE {<<t, RowBiz(d, t, d[t][id])>>})
       ELSE Result(d, FALSE, NULL, {})
  ELSE Result(d, TRUE, NULL, {})

\* ON DELETE rules of the foreign keys that point at the deleted row; they
\* run with the constraint's rights, not through the policies.
BookingsOfCustomer(d, id) == {b \in DOMAIN d.bookings : d.bookings[b].customer_id = id}
BookingsOfService(d, id) == {b \in DOMAIN d.bookings : d.bookings[b].service_id = id}
BookingsOfStaff(d, id) == {b \in DOMAIN d.bookings : d.bookings[b].staff_id = id}
PaymentsOfBookings(d, bs) == {p \in DOMAIN d.payments : d.payments[p].booking_id \in bs}

DeleteBookings(d, bs) ==
  [d EXCEPT !.bookings = Without(d.bookings, bs),
            !.payments = Without(d.payments, PaymentsOfBookings(d, bs))]

TouchedByBookings(d, bs) ==
  {<<"bookings", d.bookings[b].business_id>> : b \in bs}
    \cup {<<"payments", d.bookings[d.payments[p].booking_id].business_id>> :
            p \in PaymentsOfBookings(d, bs)}

Restricted(d, t, id) == t = "services" /\ BookingsOfService(d, id) # {}

\* The rules with payments.booking_id not declared ON DELETE CASCADE.
CascadeBookingsOnly(d, t, id) ==
  CASE t = "customers" ->
         [d EXCEPT !.bookings = Without(d.bookings, BookingsOfCustomer(d, id))]
    [] t = "bookings" -> d
    [] t = "staff" ->
         [d EXCEPT !.bookings =
            [b \in DOMAIN d.bookings |->
               IF d.bookings[b].staff_id = id
               THEN Stamped("bookings", [d.bookings[b] EXCEPT !.staff_id = NULL])
               ELSE d.bookings[b]]]
    [] OTHER -> d

\* SET NULL is an update of the bookings row, on which the updated_at
\* trigger fires.
Cascade(d, t, id) ==
  CASE t = "customers" -> DeleteBookings(d, BookingsOfCustomer(d, id))
    [] t = "bookings" -> DeleteBookings(d, {id})
    [] t = "staff" ->
         [d EXCEPT !.bookings =
            [b \in DOMAIN d.bookings |->
               IF d.bookings[b].staff_id = id
               THEN Stamped("bookings", [d.bookings[b] EXCEPT !.staff_id = NULL])
               ELSE d.bookings[b]]]
    [] OTHER -> d

CascadeTouched(d, t, id) ==
  CASE t = "customers" -> TouchedByBookings(d, BookingsOfCustomer(d, id))
    [] t = "bookings" -> TouchedByBookings(d, {id})
    [] t = "staff" ->
         {<<"bookings", d.bookings[b].business_id>> : b \in BookingsOfStaff(d, id)}
    [] OTHER -> {}

Delete(d, a, t, id) ==
  IF id \in DOMAIN d[t] /\ CanSelect(d, a, t, d[t][id])
     /\ PassUsing(d, a, t, "DELETE", d[t][id])
  THEN IF Restricted(d, t, id)
       THEN Result(d, FALSE, NULL, {})
       ELSE LET d2 == Cascade(d, t, id)
            IN Result([d2 EXCEPT ![t] = Without(d2[t], {id})], TRUE, id,
                      {<<t, RowBiz(d, t, d[t][id])>>} \cup CascadeTouched(d, t, id))
  ELSE Result(d, TRUE, NULL, {})

EmptyTable == << >>

NoSubmit == [state |-> "none"]

\* No modal is open.
NoForm == [page |-> "none"]

-----------------------------------------------------------------------------
(* Direct requests to the REST interface                                   *)

Actors == {Anon, "o1", "s1", "o2"}

SeedUsers ==
  [u \in {"o1", "s1", "o2"} |->
     CASE u = "o1" -> [id |-> u, role |-> "BUSINESS_OWNER", business_id |-> 1, email_verified |-> TRUE]
       [] u = "s1" -> [id |-> u, role |-> "STAFF", business_id |-> 1, email_verified |-> FALSE]
       [] u = "o2" -> [id |-> u, role |-> "BUSINESS_OWNER", business_id |-> 2, email_verified |-> TRUE]]

StartTimes == {1}

\* The rows a request may carry.
RowsOf(d, t) ==
  CASE t = "customers" -> [business_id : Businesses, last_visit : {NULL}]
    [] t = "services" ->
         [business_id : Businesses, price : {10}, duration : {2}, is_active : BOOLEAN]
    [] t = "staff" -> [business_id : Businesses, is_active : BOOLEAN]
    [] t = "bookings" ->
         [business_id : Businesses, customer_id : DOMAIN d.customers,
          service_id : DOMAIN d.services, staff_id : {NULL} \cup DOMAIN d.staff,
          start_time : StartTimes, end_time : {x + 2 : x \in StartTimes},
          status : {"PENDING"}]
    [] t = "payments" ->
         [booking_id : DOMAIN d.bookings, amount : {10}, status : {"PENDING"}]
    [] t = "booking_settings" ->
         [business_id : Businesses, deposit_percentage : {0}, email_notifications : {TRUE}]
    [] t = "business_hours" -> [business_id : Businesses, is_closed : {FALSE}]

\* The database after a request that changed rows.
Commit(r) ==
  /\ r.touched # {}
  /\ SetDB(r.db)
  /\ submit' = NoSubmit
  /\ UNCHANGED <<migVars, form, regVars, authVars>>

ApiInsert(a, t, row) == Commit(Insert(DB, a, t, row))

ApiUpdate(a, t, id, row) == Commit(Update(DB, a, t, id, row))

ApiDelete(a, t, id) == Commit(Delete(DB, a, t, id))

-----------------------------------------------------------------------------
(* Bookings page                                                           *)

\* loadCustomers / loadServices: the options of the form's selects.
FormCustomers(d, u) ==
  {c \in Visible(d, u, "customers") : d.customers[c].business_id = d.users[u].business_id}

FormServices(d, u) ==
  {s \in Visible(d, u, "services") :
     /\ d.services[s].business_id = d.users[u].business_id
     /\ d.services[s].is_active}

\* insert(...).select('id').single(): the new row must also be readable.
InsertReturning(d, a, t, row) ==
  LET r == Insert(d, a, t, row)
  IN IF r.ok /\ CanSelect(r.db, a, t, row) THEN r ELSE Result(d, FALSE, NULL, {})

\* One request of an operation: what is called, whether it returned
\* without error, and the call in whose error branch it is issued ("" when
\* it is issued on the straight path).
Call(name, ok, handles) == [call |-> name, ok |-> ok, handles |-> handles]

\* A request that does not reach the database.
Lost(d) == Result(d, FALSE, NULL, {})

BookingData(d, u, c, s, start) ==
  [business_id |-> d.users[u].business_id, customer_id |-> c, service_id |-> s,
   staff_id |-> NULL, start_time |-> start,
   end_time |-> start + d.services[s].duration, status |-> "PENDING"]

\* The create branch.  Each of the three requests may fail; only the
\* first one's error is looked at.
CreateBooking(d, u, c, s, start, lostBooking, lostCustomer, lostPayment) ==
  LET r1 == IF lostBooking THEN Lost(d)
            ELSE InsertReturning(d, u, "bookings", BookingData(d, u, c, s, start))
      r2 == IF lostCustomer THEN Lost(r1.db)
            ELSE Update(r1.db, u, "customers", c,
                        [r1.db.customers[c] EXCEPT !.last_visit = start])
      price == d.services[s].price
      r3 == IF price > 0
            THEN IF lostPayment THEN Lost(r2.db)
                 ELSE Insert(r2.db, u, "payments",
                             [booking_id |-> r1.id, amount |-> price, status |-> "PENDING"])
            ELSE Result(r2.db, TRUE, NULL, {})
      seen == [bookings |-> DOMAIN d.bookings, payments |-> DOMAIN d.payments,
               last_visit |-> d.customers[c].last_visit]
  IN IF r1.ok
     THEN [db |-> r3.db,
           out |-> [state |-> "saved", booking |-> r1.id, customer |-> c,
                    price |-> price, start_time |-> start, before |-> seen,
                    lost |-> {x \in {"customers", "payments"} :
                                \/ x = "customers" /\ lostCustomer
                                \/ x = "payments" /\ lostPayment /\ price > 0}],
           calls |-> <<Call("bookings.insert", TRUE, ""),
                       Call("customers.update", r2.ok, "")>>
                       \o IF price > 0 THEN <<Call("payments.insert", r3.ok, "")>>
                          ELSE << >>]
     ELSE [db |-> d,
           out |-> [state |-> "error", booking |-> NULL, customer |-> c,
                    price |-> price, start_time |-> start, before |-> seen,
                    lost |-> {"bookings"}],
           calls |-> <<Call("bookings.insert", FALSE, "")>>]

BookingsHandleSubmit(u, c, s, start, lostBooking, lostCustomer, lostPayment) ==
  /\ u \in DOMAIN users
  /\ users[u].business_id # NULL
  /\ c \in FormCustomers(DB, u)
  /\ s \in FormServices(DB, u)
  /\ LET r == CreateBooking(DB, u, c, s, start, lostBooking, lostCustomer, lostPayment)
     IN /\ SetDB(r.db)
        /\ submit' = r.out
  /\ UNCHANGED <<migVars, form, regVars, authVars>>

\* The times the form's start_time field is given.
FormTimes == {1, 2, 4}

\* The edit form keeps the booking's staff_id and status, which
\* handleOpenModal copied into it.
EditData(d, u, b, c, s, start) ==
  [BookingData(d, u, c, s, start) EXCEPT !.staff_id = d.bookings[b].staff_id,
                                         !.status = d.bookings[b].status]

\* The edit branch: one update of the booking, no payment, no last_visit.
BookingsHandleEdit(u, b, c, s, start) ==
  /\ u \in DOMAIN users
  /\ users[u].business_id # NULL
  /\ b \in Visible(DB, u, "bookings")
  /\ bookings[b].business_id = users[u].business_id
  /\ c \in FormCustomers(DB, u)
  /\ s \in FormServices(DB, u)
  /\ LET r == Update(DB, u, "bookings", b, EditData(DB, u, b, c, s, start))
     IN /\ r.touched # {}
        /\ SetDB(r.db)
  /\ submit' = NoSubmit
  /\ UNCHANGED <<migVars, form, regVars, authVars>>

BookingsHandleDelete(u, b) ==
  /\ u \in DOMAIN users
  /\ b \in Visible(DB, u, "bookings")
  /\ bookings[b].business_id = users[u].business_id
  /\ LET r == Delete(DB, u, "bookings", b)
     IN /\ r.touched # {}
        /\ SetDB(r.db)
  /\ submit' = NoSubmit
  /\ UNCHANGED <<migVars, form, regVars, authVars>>

Statuses == {"PENDING", "CONFIRMED", "COMPLETED", "CANCELLED", "NO_SHOW"}

\* loadBookings: the rows of the page's table.
PageBookings(d, u) ==
  {b \in Visible(d, u, "bookings") : d.bookings[b].business_id = d.users[u].business_id}

\* A status update that lets a booking leave PENDING and CONFIRMED only.
StatusUpdateForwardOnly(d, u, b, newStatus) ==
  IF d.bookings[b].status \in {"PENDING", "CONFIRMED"}
  THEN Update(d, u, "bookings", b, [d.bookings[b] EXCEPT !.status = newStatus])
  ELSE Result(d, FALSE, NULL, {})

\* update({ status: newStatus }).eq('id', bookingId)
StatusUpdate(d, u, b, newStatus) ==
  Update(d, u, "bookings", b, [d.bookings[b] EXCEPT !.status = newStatus])

\* Bookings.updateBookingStatus, called by the row's status select; an error
\* is logged and nothing else.
UpdateBookingStatus(u, b, newStatus, lost) ==
  /\ u \in DOMAIN users
  /\ b \in PageBookings(DB, u)
  /\ SetDB(IF lost THEN DB ELSE StatusUpdate(DB, u, b, newStatus).db)
  /\ submit' = NoSubmit
  /\ UNCHANGED <<migVars, form, regVars, authVars>>

-----------------------------------------------------------------------------
(* Delete buttons of the Customers, Staff and Services pages               *)

\* The rows of the user's business that a page lists.
PageRows(d, u, t) ==
  {i \in Visible(d, u, t) : d[t][i].business_id = d.users[u].business_id}

\* handleDelete of a page: one delete by id; an error is only alerted.
PageHandleDelete(u, t, id) ==
  /\ u \in DOMAIN users
  /\ users[u].business_id # NULL
  /\ id \in PageRows(DB, u, t)
  /\ LET r == Delete(DB, u, t, id)
     IN /\ r.touched # {}
        /\ SetDB(r.db)
  /\ submit' = NoSubmit
  /\ UNCHANGED <<migVars, form, regVars, authVars>>

CustomersHandleDelete(u, c) == PageHandleDelete(u, "customers", c)

StaffHandleDelete(u, st) == PageHandleDelete(u, "staff", st)

ServicesHandleDelete(u, s) == PageHandleDelete(u, "services", s)

-----------------------------------------------------------------------------
(* Services page                                                           *)

\* What is typed into the number inputs; "" is the emptied field.
NumberTexts == {"", "-1", "0", "2"}

\* parseInt(e.target.value) || 0 and parseFloat(e.target.value) || 0: the
\* emptied field parses to NaN, and NaN || 0 is 0.
ParseOrZero(text) ==
  CASE text = "-1" -> -1
    [] text = "2" -> 2
    [] text = "50" -> 50
    [] text = "101" -> 101
    [] OTHER -> 0

\* handleOpenModal: the service's values when editing, else the defaults.
ServicesOpenModal(u, editing) ==
  /\ form = NoForm
  /\ u \in DOMAIN users
  /\ editing = NULL \/ editing \in PageRows(DB, u, "services")
  /\ form' = [page |-> "services", user |-> u, editing |-> editing,
              duration |-> IF editing = NULL THEN 30 ELSE services[editing].duration,
              price |-> IF editing = NULL THEN 0 ELSE services[editing].price,
              error |-> "", submitting |-> FALSE]
  /\ UNCHANGED <<migVars, dbVars, submit, regVars, authVars>>

ServicesChangeDuration(text) ==
  /\ form.page = "services"
  /\ form' = [form EXCEPT !.duration = ParseOrZero(text)]
  /\ UNCHANGED <<migVars, dbVars, submit, regVars, authVars>>

ServicesChangePrice(text) ==
  /\ form.page = "services"
  /\ form' = [form EXCEPT !.price = ParseOrZero(text)]
  /\ UNCHANGED <<migVars, dbVars, submit, regVars, authVars>>

\* The checks with the one on the duration left out.
ServiceErrorPriceOnly(d, f) ==
  IF d.users[f.user].business_id = NULL THEN "Business ID is missing"
  ELSE IF f.price < 0 THEN "Price cannot be negative"
  ELSE ""

\* The checks before the request, in their order; "" when all pass.
ServiceError(d, f) ==
  IF d.users[f.user].business_id = NULL THEN "Business ID is missing"
  ELSE IF f.price < 0 THEN "Price cannot be negative"
  ELSE IF f.duration <= 0 THEN "Duration must be greater than 0"
  ELSE ""

\* The one request of handleSubmit: an update of the edited service or an
\* insert for the user's business.
ServiceRequest(d, f) ==
  IF f.editing # NULL
  THEN IF f.editing \in DOMAIN d.services
       THEN Update(d, f.user, "services", f.editing,
                   [d.services[f.editing] EXCEPT !.duration = f.duration,
                                                 !.price = f.price])
       ELSE Result(d, TRUE, NULL, {})
  ELSE Insert(d, f.user, "services",
              [business_id |-> d.users[f.user].business_id, price |-> f.price,
               duration |-> f.duration, is_active |-> TRUE])

\* handleSubmit as a function of the database and the form: the database
\* and the form after it.  A failed check or request leaves the modal
\* open with the error; success closes it.
ServiceSubmit(d, f, lost) ==
  IF ServiceError(d, f) # ""
  THEN [db |-> d, form |-> [f EXCEPT !.error = ServiceError(d, f), !.submitting = FALSE]]
  ELSE LET r == IF lost THEN Lost(d) ELSE ServiceRequest(d, f)
       IN IF r.ok THEN [db |-> r.db, form |-> NoForm]
          ELSE [db |-> d, form |-> [f EXCEPT !.error = "Failed to save service",
                                             !.submitting = FALSE]]

ServicesHandleSubmit(lost) ==
  /\ form.page = "services"
  /\ LET r == ServiceSubmit(DB, form, lost)
     IN SetDB(r.db) /\ form' = r.form
  /\ submit' = NoSubmit
  /\ UNCHANGED <<migVars, regVars, authVars>>

ServicesCloseModal ==
  /\ form.page = "services"
  /\ form' = NoForm
  /\ UNCHANGED <<migVars, dbVars, submit, regVars, authVars>>

-----------------------------------------------------------------------------
(* Settings page, booking settings tab                                     *)

\* What is typed into the deposit input.
DepositTexts == {"", "-1", "50", "101"}

\* The value passed on as it is.
Unclamped(v) == v

\* Math.max(0, Math.min(100, v))
Clamp(v) == IF v < 0 THEN 0 ELSE IF v > 100 THEN 100 ELSE v

\* loadBookingSettings: the row of the user's business if one is returned,
\* else the initial state of the form.
SettingsOpen(u) ==
  /\ form = NoForm
  /\ u \in DOMAIN users
  /\ users[u].business_id # NULL
  /\ LET rows == PageRows(DB, u, "booking_settings")
     IN form' = [page |-> "settings", user |-> u,
                 deposit_percentage |->
                   IF rows = {} THEN 0
                   ELSE booking_settings[CHOOSE i \in rows : TRUE].deposit_percentage,
                 email_notifications |->
                   IF rows = {} THEN TRUE
                   ELSE booking_settings[CHOOSE i \in rows : TRUE].email_notifications,
                 error |-> "", success |-> "", saving |-> FALSE]
  /\ UNCHANGED <<migVars, dbVars, submit, regVars, authVars>>

SettingsChangeDeposit(text) ==
  /\ form.page = "settings"
  /\ form' = [form EXCEPT !.deposit_percentage = Clamp(ParseOrZero(text))]
  /\ UNCHANGED <<migVars, dbVars, submit, regVars, authVars>>

\* The row handleSaveBookingSettings sends; email_notifications is not
\* sent and takes its DEFAULT true.
SettingsPayload(d, f) ==
  [business_id |-> d.users[f.user].business_id,
   deposit_percentage |-> Clamp(f.deposit_percentage),
   email_notifications |-> TRUE]

\* upsert(row) without onConflict resolves conflicts on the primary key
\* only; the row carries no id, so it is an insert under a new id.
Upsert(d, a, t, row) == Insert(d, a, t, row)

SettingsSave(d, f, lost) ==
  LET r == IF lost THEN Lost(d) ELSE Upsert(d, f.user, "booking_settings", SettingsPayload(d, f))
  IN IF r.ok
     THEN [db |-> r.db,
           form |-> [f EXCEPT !.error = "", !.saving = FALSE,
                              !.success = "Booking settings saved successfully"]]
     ELSE [db |-> d,
           form |-> [f EXCEPT !.error = "Failed to save booking settings",
                              !.success = "", !.saving = FALSE]]

HandleSaveBookingSettings(lost) ==
  /\ form.page = "settings"
  /\ users[form.user].business_id # NULL
  /\ LET r == SettingsSave(DB, form, lost)
     IN SetDB(r.db) /\ form' = r.form
  /\ submit' = NoSubmit
  /\ UNCHANGED <<migVars, regVars, authVars>>

-----------------------------------------------------------------------------
(* Settings page, notifications tab                                        *)

SettingsToggleNotifications ==
  /\ form.page = "settings"
  /\ form' = [form EXCEPT !.email_notifications = ~form.email_notifications]
  /\ UNCHANGED <<migVars, dbVars, submit, regVars, authVars>>

\* An upsert that on a conflict stores the row sent in place of the stored
\* one, the columns that were not sent at their defaults.
UpsertReplacing(d, a, t, row) ==
  LET same == {i \in DOMAIN d[t] : d[t][i].business_id = row.business_id}
  IN IF ~PassCheck(d, a, t, "INSERT", row) THEN Result(d, FALSE, NULL, {})
     ELSE IF same = {} THEN Insert(d, a, t, row)
     ELSE LET i == CHOOSE j \in same : TRUE
          IN IF /\ CanSelect(d, a, t, d[t][i])
                /\ PassUsing(d, a, t, "UPDATE", d[t][i])
                /\ PassCheck(d, a, t, "UPDATE", row)
             THEN Result([d EXCEPT ![t][i] = row], TRUE, i, {<<t, row.business_id>>})
             ELSE Result(d, FALSE, NULL, {})

\* upsert(row, {onConflict: 'business_id'}): INSERT ... ON CONFLICT
\* (business_id) DO UPDATE SET the columns sent.  The new row must pass the
\* INSERT policies; on a conflict the stored row must pass the UPDATE
\* policies as well, or the statement fails.
UpsertOnBusiness(d, a, t, row) ==
  LET same == {i \in DOMAIN d[t] : d[t][i].business_id = row.business_id}
  IN IF ~PassCheck(d, a, t, "INSERT", row) THEN Result(d, FALSE, NULL, {})
     ELSE IF same = {} THEN Insert(d, a, t, row)
     ELSE LET i == CHOOSE j \in same : TRUE
              merged == [d[t][i] EXCEPT !.email_notifications = row.email_notifications]
          IN IF /\ CanSelect(d, a, t, d[t][i])
                /\ PassUsing(d, a, t, "UPDATE", d[t][i])
                /\ PassCheck(d, a, t, "UPDATE", merged)
             THEN Result([d EXCEPT ![t][i] = merged], TRUE, i,
                         {<<t, row.business_id>>})
             ELSE Result(d, FALSE, NULL, {})

\* update({...}).eq('business_id', user.business_id)
UpdateNotifications(d, f) ==
  LET biz == d.users[f.user].business_id
      same == {i \in DOMAIN d.booking_settings : d.booking_settings[i].business_id = biz}
  IN IF same = {} THEN Result(d, TRUE, NULL, {})
     ELSE LET i == CHOOSE j \in same : TRUE
          IN Update(d, f.user, "booking_settings", i,
                    [d.booking_settings[i] EXCEPT
                       !.email_notifications = f.email_notifications])

\* loadBookingSettings after a save: the form takes the stored values.
Reloaded(d, f) ==
  LET rows == PageRows(d, f.user, "booking_settings")
  IN IF rows = {} THEN f
     ELSE LET row == d.booking_settings[CHOOSE i \in rows : TRUE]
          IN [f EXCEPT !.deposit_percentage = row.deposit_percentage,
                       !.email_notifications = row.email_notifications]

\* The save with the upsert alone: its error is thrown at once.
NotificationsSaveOnce(d, f, lostUpsert, lostUpdate) ==
  LET row == [business_id |-> d.users[f.user].business_id,
              deposit_percentage |-> 0,
              email_notifications |-> f.email_notifications]
      r1 == IF lostUpsert THEN Lost(d)
            ELSE UpsertOnBusiness(d, f.user, "booking_settings", row)
      upsert == Call("booking_settings.upsert", r1.ok, "")
  IN IF r1.ok
     THEN [db |-> r1.db,
           form |-> [Reloaded(r1.db, f) EXCEPT
                       !.error = "", !.saving = FALSE,
                       !.success = "Notification preferences saved successfully"],
           calls |-> <<upsert>>]
     ELSE [db |-> d,
           form |-> [f EXCEPT !.error = "Failed to save notification preferences",
                              !.success = "", !.saving = FALSE],
           calls |-> <<upsert>>]

\* handleSaveNotifications as a function of the database and the form:
\* the upsert and, in its error branch, the update.
NotificationsSave(d, f, lostUpsert, lostUpdate) ==
  LET row == [business_id |-> d.users[f.user].business_id,
              deposit_percentage |-> 0,
              email_notifications |-> f.email_notifications]
      r1 == IF lostUpsert THEN Lost(d)
            ELSE UpsertOnBusiness(d, f.user, "booking_settings", row)
      r2 == IF lostUpdate THEN Lost(d) ELSE UpdateNotifications(d, f)
      saved(d2) == [Reloaded(d2, f) EXCEPT
                      !.error = "", !.saving = FALSE,
                      !.success = "Notification preferences saved successfully"]
      upsert == Call("booking_settings.upsert", r1.ok, "")
      update == Call("booking_settings.update", r2.ok, "booking_settings.upsert")
  IN IF r1.ok THEN [db |-> r1.db, form |-> saved(r1.db), calls |-> <<upsert>>]
     ELSE IF r2.ok
          THEN [db |-> r2.db, form |-> saved(r2.db), calls |-> <<upsert, update>>]
          ELSE [db |-> d,
                form |-> [f EXCEPT !.error = "Failed to save notification preferences",
                                   !.success = "", !.saving = FALSE],
                calls |-> <<upsert, update>>]

HandleSaveNotifications(lostUpsert, lostUpdate) ==
  /\ form.page = "settings"
  /\ users[form.user].business_id # NULL
  /\ LET r == NotificationsSave(DB, form, lostUpsert, lostUpdate)
     IN SetDB(r.db) /\ form' = r.form
  /\ submit' = NoSubmit
  /\ UNCHANGED <<migVars, regVars, authVars>>

SettingsLeave ==
  /\ form.page = "settings"
  /\ form' = NoForm
  /\ UNCHANGED <<migVars, dbVars, submit, regVars, authVars>>

-----------------------------------------------------------------------------
(* Staff invites and registration                                          *)

SevenDays == 7

\* null where a users id is expected.
NoUser == ""

Registrants == {"r1", "r2"}
Emails == {"e1", "e2"}

\* Staff.generateInvite: a fresh token, expiring seven days from now; the
\* insert goes through the policies of staff_invites.
GenerateInvite(u) ==
  /\ u \in DOMAIN users
  /\ users[u].business_id # NULL
  /\ FreeIds(DB, "staff_invites") # {}
  /\ Commit(Insert(DB, u, "staff_invites",
                   [business_id |-> users[u].business_id,
                    token |-> NewId(DB, "staff_invites"),
                    invited_by |-> u,
                    used |-> FALSE,
                    expires_at |-> now + SevenDays,
                    created_at |-> now]))

\* Staff.loadInvites: select('*').eq('business_id', user.business_id)
LoadInvites(d, u) == PageRows(d, u, "staff_invites")

\* The lookup with .gte('expires_at', ...) in place of .gt.
FindInviteAtExpiry(d, a, token, t) ==
  {i \in Visible(d, a, "staff_invites") :
     /\ d.staff_invites[i].token = token
     /\ d.staff_invites[i].used = FALSE
     /\ d.staff_invites[i].expires_at >= t}

\* .eq('token', token).eq('used', false).gt('expires_at', new Date()) on
\* the rows the policies show to the caller.
FindInvite(d, a, token, t) ==
  {i \in Visible(d, a, "staff_invites") :
     /\ d.staff_invites[i].token = token
     /\ d.staff_invites[i].used = FALSE
     /\ d.staff_invites[i].expires_at > t}

\* The invite rows that carry a token, whoever asks: one at most.
InvitesOf(token) ==
  {staff_invites[i] : i \in {j \in DOMAIN staff_invites : staff_invites[j].token = token}}

NotStarted ==
  [pc |-> "form", email |-> "", token |-> NULL, business_id |-> NULL,
   checked |-> NULL, presented |-> {}, message |-> ""]

\* Register.handleSubmit up to the token check: the invite is looked up with
\* the anon key; without a row the handler throws.
RegisterValidate(r, email, token) ==
  /\ reg[r].pc = "form"
  /\ LET found == FindInvite(DB, Anon, token, now)
         base == [NotStarted EXCEPT !.email = email, !.token = token,
                                    !.checked = now, !.presented = InvitesOf(token)]
     IN reg' = [reg EXCEPT ![r] =
          IF found = {}
          THEN [base EXCEPT !.pc = "error",
                            !.message = "Invalid or expired invite link"]
          ELSE [base EXCEPT !.pc = "signUp",
                            !.business_id =
                               staff_invites[CHOOSE i \in found : TRUE].business_id]]
  /\ UNCHANGED <<migVars, form, dbVars, submit, now, accounts, authVars>>

\* The profile row signUp inserts itself when the trigger made none.
InsertProfile(d, a, row) ==
  IF a \notin DOMAIN d.users /\ PassCheck(d, a, "users", "INSERT", row)
  THEN [d EXCEPT !.users = (a :> row) @@ d.users]
  ELSE d

\* while (attempts < 5 && !session): getSession after each wait.
MaxAttempts == 5

\* The getSession calls of the loop when the session shows at the k-th
\* attempt (or at none, k = MaxAttempts): each one after the first is
\* issued because the one before returned no session.
Polling(k) ==
  [n \in 1 .. k |-> Call("auth.getSession", TRUE,
                         IF n = 1 THEN "" ELSE "auth.getSession")]

SignUpOutcomes == {"trigger", "insert", "duplicate", "unconfirmed"}

\* signUp(email, ..., 'STAFF', invite.business_id) as a function of the
\* database and of what its calls meet.  supabase.auth.signUp refuses an
\* email that has an account.  Otherwise the account exists from here on:
\*   "trigger"      the first read returns the profile handle_new_user made;
\*   "insert"       no profile is there, a session shows at the polls-th
\*                  attempt and signUp inserts the profile itself;
\*   "duplicate"    the trigger's profile is hidden from the first read, a
\*                  session shows, the insert meets the row (23505) and
\*                  the profile is read again;
\*   "unconfirmed"  no profile is returned and no session shows.
SignUp(d, accs, rg, outcome, polls) ==
  LET email == rg.email
      byTrigger == [id |-> email, role |-> "STAFF", email_verified |-> FALSE,
                    business_id |-> NULL]
      byInsert == [byTrigger EXCEPT !.business_id = rg.business_id]
      account == [email |-> email, role |-> "STAFF", token |-> rg.token]
      withTrigger == [d EXCEPT !.users = (email :> byTrigger) @@ d.users]
      inserted == email \notin DOMAIN d.users
                    /\ PassCheck(d, email, "users", "INSERT", byInsert)
      first == <<Call("auth.signUp", TRUE, ""), Call("users.select", TRUE, "")>>
      Ok(d2, calls) == [db |-> d2, accounts |-> accs \cup {account},
                        pc |-> "markUsed", message |-> "", calls |-> calls]
      Err(d2, calls, msg) == [db |-> d2, accounts |-> accs \cup {account},
                              pc |-> "error", message |-> msg, calls |-> calls]
  IN IF \E a \in accs : a.email = email
     THEN [db |-> d, accounts |-> accs, pc |-> "error",
           message |-> "An account with this email already exists",
           calls |-> <<Call("auth.signUp", FALSE, "")>>]
     ELSE CASE outcome = "trigger" -> Ok(withTrigger, first)
            [] outcome = "insert" ->
                 IF inserted
                 THEN Ok(InsertProfile(d, email, byInsert),
                         first \o Polling(polls) \o <<Call("users.insert", TRUE, "")>>)
                 ELSE Err(d, first \o Polling(polls)
                               \o <<Call("users.insert", FALSE, ""),
                                    Call("auth.signOut", TRUE, "users.insert")>>,
                          "Failed to create user profile")
            [] outcome = "duplicate" ->
                 IF email \in Visible(withTrigger, email, "users")
                 THEN Ok(withTrigger,
                         first \o Polling(polls)
                           \o <<Call("users.insert", FALSE, ""),
                                Call("users.select", TRUE, "users.insert")>>)
                 ELSE Err(withTrigger,
                          first \o Polling(polls)
                            \o <<Call("users.insert", FALSE, ""),
                                 Call("users.select", FALSE, "users.insert"),
                                 Call("auth.signOut", TRUE, "users.insert")>>,
                          "Profile creation failed. Please try signing in.")
            [] OTHER ->
                 Err(d, first \o Polling(MaxAttempts),
                     "Please check your email to verify your account")

RegisterSignUp(r, outcome) ==
  /\ reg[r].pc = "signUp"
  /\ \E polls \in 1 .. MaxAttempts :
       LET res == SignUp(DB, accounts, reg[r], outcome, polls)
       IN /\ accounts' = res.accounts
          /\ SetDB(res.db)
          /\ reg' = [reg EXCEPT ![r].pc = res.pc, ![r].message = res.message]
  /\ UNCHANGED <<migVars, form, submit, now, authVars>>

\* update({used: true}).eq('token', token) as the user who has just signed
\* up; the result is not looked at, then the page redirects.
RegisterMarkUsed(r) ==
  /\ reg[r].pc = "markUsed"
  /\ LET ids == {i \in DOMAIN staff_invites : staff_invites[i].token = reg[r].token}
         d2 == IF ids = {} THEN DB
               ELSE LET i == CHOOSE i \in ids : TRUE
                    IN Update(DB, reg[r].email, "staff_invites", i,
                              [staff_invites[i] EXCEPT !.used = TRUE]).db
     IN SetDB(d2)
  /\ reg' = [reg EXCEPT ![r].pc = "done"]
  /\ UNCHANGED <<migVars, form, submit, now, accounts, authVars>>

\* A direct request that sets an invite's used flag.
ApiMarkUsed(a, i) ==
  /\ i \in DOMAIN staff_invites
  /\ ApiUpdate(a, "staff_invites", i, [staff_invites[i] EXCEPT !.used = TRUE])

Tick ==
  /\ now < MaxDay
  /\ now' = now + 1
  /\ UNCHANGED <<migVars, form, dbVars, submit, accounts, reg, authVars>>

NoCall == [pc |-> "none", id |-> NoUser, error |-> ""]

PagesIdle ==
  /\ form = NoForm
  /\ now = 0
  /\ accounts = {}
  /\ reg = [r \in Registrants |-> NotStarted]
  /\ session = NoUser
  /\ user = NoUser
  /\ fetches = {}
  /\ call = NoCall

-----------------------------------------------------------------------------
(* AuthProvider                                                            *)

\* updateProfile(updates): update(updates).eq('id', user.id) as the signed-in
\* user, with whatever columns the caller names.
UpdateProfile(u, updates) ==
  /\ u \in DOMAIN users
  /\ ApiUpdate(u, "users", u, updates @@ users[u])

\* The callback given to onAuthStateChange: with a session it requests the
\* profile and sets the user when the answer comes; without one it clears
\* the user at once.
OnAuthStateChange(s) ==
  IF s # NoUser
  THEN /\ fetches' = fetches \cup {s}
       /\ UNCHANGED user
  ELSE /\ user' = NoUser
       /\ UNCHANGED fetches

\* The answer to a request of the callback arrives.  It carries the row when
\* the request was served under the session that started it, and no row when
\* the session was gone by then.
ProfileArrives(u, served) ==
  /\ u \in fetches
  /\ fetches' = fetches \ {u}
  /\ user' = IF served /\ u \in Visible(DB, u, "users") THEN u ELSE user
  /\ UNCHANGED <<migVars, form, dbVars, submit, regVars, session, call>>

NoCallRunning == call.pc \in {"none", "returned", "thrown"}

\* signIn, step 1: signInWithPassword; its SIGNED_IN event reaches the
\* callback before signIn goes on.
SignInPassword(u, valid) ==
  /\ NoCallRunning
  /\ u \in DOMAIN users \cup {a.email : a \in accounts}
  /\ IF valid
     THEN /\ session' = u
          /\ OnAuthStateChange(u)
          /\ call' = [pc |-> "profile", id |-> u, error |-> ""]
     ELSE /\ call' = [pc |-> "thrown", id |-> u, error |-> "Invalid email or password"]
          /\ UNCHANGED <<session, user, fetches>>
  /\ UNCHANGED <<migVars, form, dbVars, submit, regVars>>

\* signIn, step 2 and 3: the profile is read; an owner who has not verified
\* the email goes on to sign out, any other profile becomes the user; a
\* missing profile is inserted from the account's metadata.
SignInProfile ==
  /\ call.pc = "profile"
  /\ LET u == call.id IN
     IF u \in Visible(DB, u, "users")
     THEN /\ IF users[u].role = "BUSINESS_OWNER" /\ ~users[u].email_verified
             THEN /\ call' = [call EXCEPT !.pc = "signOut"]
                  /\ UNCHANGED user
             ELSE /\ call' = [call EXCEPT !.pc = "returned"]
                  /\ user' = u
          /\ UNCHANGED dbVars
     ELSE LET meta == CHOOSE a \in accounts : a.email = u
              d2 == InsertProfile(DB, u, [id |-> u, role |-> meta.role,
                                          business_id |-> NULL, email_verified |-> TRUE])
          IN /\ SetDB(d2)
             /\ IF u \in DOMAIN d2.users
                THEN /\ call' = [call EXCEPT !.pc = "returned"]
                     /\ user' = u
                ELSE /\ call' = [call EXCEPT !.pc = "thrown",
                                             !.error = "Unable to create user profile"]
                     /\ UNCHANGED user
  /\ UNCHANGED <<migVars, form, submit, regVars, session, fetches>>

\* signIn, the unverified owner: await supabase.auth.signOut(), whose error
\* is not looked at, then the verification error is thrown.
SignInSignOut(lost) ==
  /\ call.pc = "signOut"
  /\ IF lost
     THEN UNCHANGED <<session, user, fetches>>
     ELSE /\ session' = NoUser
          /\ OnAuthStateChange(NoUser)
  /\ call' = [call EXCEPT !.pc = "thrown",
                          !.error = "Please verify your email address before signing in"]
  /\ UNCHANGED <<migVars, form, dbVars, submit, regVars>>

\* signOut of the context.
SignOut ==
  /\ NoCallRunning
  /\ session # NoUser
  /\ session' = NoUser
  /\ user' = NoUser
  /\ call' = NoCall
  /\ UNCHANGED <<migVars, form, dbVars, submit, regVars, fetches>>

-----------------------------------------------------------------------------
(* Specifications                                                          *)

vars == <<applied, tables, rls, policies, users, customers, services, staff,
          bookings, payments, booking_settings, business_hours, staff_invites,
          submit, form, now, accounts, reg, session, user, fetches, call>>

EmptyData ==
  /\ users = EmptyTable
  /\ customers = EmptyTable
  /\ services = EmptyTable
  /\ staff = EmptyTable
  /\ bookings = EmptyTable
  /\ payments = EmptyTable
  /\ booking_settings = EmptyTable
  /\ business_hours = EmptyTable
  /\ staff_invites = EmptyTable
  /\ submit = NoSubmit
  /\ PagesIdle

\* An empty project on which the scripts are run, in any order that runs.
MigInit ==
  /\ applied = {}
  /\ tables = {}
  /\ rls = [t \in AppTables |-> FALSE]
  /\ policies = {}
  /\ EmptyData

MigNext == \E m \in ScriptNames : Migrate(m)

SpecMig == MigInit /\ [][MigNext]_vars

\* The database once the core schema has been run.
AfterCoreSchema ==
  /\ applied = {"CoreSchema"}
  /\ tables = CoreTables
  /\ rls = [t \in AppTables |-> t \in CoreTables]
  /\ policies = CorePolicies

\* Direct requests of every actor on every data table, on a database on
\* which the script that switches row security off may still be run.
RlsInit ==
  /\ AfterCoreSchema
  /\ users = SeedUsers
  /\ customers = EmptyTable
  /\ services = EmptyTable
  /\ staff = EmptyTable
  /\ bookings = EmptyTable
  /\ payments = EmptyTable
  /\ booking_settings = EmptyTable
  /\ business_hours = EmptyTable
  /\ staff_invites = EmptyTable
  /\ submit = NoSubmit
  /\ PagesIdle

RlsNext ==
  \/ \E a \in Actors, t \in DataTables :
       /\ Cardinality(DOMAIN DB[t]) < GenericRows
       /\ \E row \in RowsOf(DB, t) : ApiInsert(a, t, row)
  \/ \E a \in Actors, t \in DataTables :
       \E id \in DOMAIN DB[t], row \in RowsOf(DB, t) : ApiUpdate(a, t, id, row)
  \/ \E a \in Actors, t \in DataTables :
       \E id \in DOMAIN DB[t] : ApiDelete(a, t, id)
  \/ Migrate("DisableAndReenableRls")

SpecRls == RlsInit /\ [][RlsNext]_vars

\* The booking flow of two businesses with their customers and services.
Init ==
  /\ AfterCoreSchema
  /\ users = SeedUsers
  /\ customers = (1 :> [business_id |-> 1, last_visit |-> NULL])
                   @@ (2 :> [business_id |-> 2, last_visit |-> NULL])
  /\ services = (1 :> [business_id |-> 1, price |-> 0, duration |-> 2, is_active |-> TRUE])
                  @@ (2 :> [business_id |-> 1, price |-> 10, duration |-> 2, is_active |-> TRUE])
  /\ staff = EmptyTable
  /\ bookings = EmptyTable
  /\ payments = EmptyTable
  /\ booking_settings = EmptyTable
  /\ business_hours = EmptyTable
  /\ staff_invites = EmptyTable
  /\ submit = NoSubmit
  /\ PagesIdle

Next ==
  \/ \E u \in DOMAIN users, c \in DOMAIN customers, s \in DOMAIN services,
        start \in StartTimes, lb \in BOOLEAN, lc \in BOOLEAN, lp \in BOOLEAN :
       BookingsHandleSubmit(u, c, s, start, lb, lc, lp)
  \/ \E u \in DOMAIN users, b \in DOMAIN bookings, c \in DOMAIN customers,
        s \in DOMAIN services, start \in StartTimes :
       BookingsHandleEdit(u, b, c, s, start)
  \/ \E u \in DOMAIN users, b \in DOMAIN bookings : BookingsHandleDelete(u, b)
  \/ \E a \in Actors, t \in {"bookings", "payments"} :
       \E row \in RowsOf(DB, t) : ApiInsert(a, t, row)

Spec == Init /\ [][Next]_vars

\* The status select of the bookings page, on bookings made through the
\* form, while the clock runs.
StatusNext ==
  \/ \E u \in DOMAIN users, c \in DOMAIN customers, s \in DOMAIN services,
        start \in StartTimes :
       BookingsHandleSubmit(u, c, s, start, FALSE, FALSE, FALSE)
  \/ \E u \in DOMAIN users, b \in DOMAIN bookings, newStatus \in Statuses,
        lost \in BOOLEAN :
       UpdateBookingStatus(u, b, newStatus, lost)
  \/ now < MaxStamp /\ Tick

SpecStatus == Init /\ [][StatusNext]_vars

\* Bookings made and moved through the form and through direct requests,
\* in a business that has a staff member.
OverlapInit ==
  /\ AfterCoreSchema
  /\ users = SeedUsers
  /\ customers = (1 :> [business_id |-> 1, last_visit |-> NULL])
  /\ services = (1 :> [business_id |-> 1, price |-> 0, duration |-> 2, is_active |-> TRUE])
  /\ staff = (1 :> [business_id |-> 1, is_active |-> TRUE])
  /\ bookings = EmptyTable
  /\ payments = EmptyTable
  /\ booking_settings = EmptyTable
  /\ business_hours = EmptyTable
  /\ staff_invites = EmptyTable
  /\ submit = NoSubmit
  /\ PagesIdle

OverlapNext ==
  \/ \E u \in DOMAIN users, c \in DOMAIN customers, s \in DOMAIN services,
        start \in FormTimes :
       BookingsHandleSubmit(u, c, s, start, FALSE, FALSE, FALSE)
  \/ \E u \in DOMAIN users, b \in DOMAIN bookings, c \in DOMAIN customers,
        s \in DOMAIN services, start \in FormTimes :
       BookingsHandleEdit(u, b, c, s, start)
  \/ \E a \in Actors : \E row \in RowsOf(DB, "bookings") : ApiInsert(a, "bookings", row)
  \/ \E u \in DOMAIN users, b \in DOMAIN bookings : BookingsHandleDelete(u, b)

SpecOverlap == OverlapInit /\ [][OverlapNext]_vars

\* Deletes from the four pages and by direct request, in a business that
\* has two customers, a service and a staff member, among bookings made
\* through the form and by direct request.
DeleteInit ==
  /\ AfterCoreSchema
  /\ users = SeedUsers
  /\ customers = (1 :> [business_id |-> 1, last_visit |-> NULL])
                   @@ (2 :> [business_id |-> 1, last_visit |-> NULL])
  /\ services = (1 :> [business_id |-> 1, price |-> 10, duration |-> 2, is_active |-> TRUE])
  /\ staff = (1 :> [business_id |-> 1, is_active |-> TRUE])
  /\ bookings = EmptyTable
  /\ payments = EmptyTable
  /\ booking_settings = EmptyTable
  /\ business_hours = EmptyTable
  /\ staff_invites = EmptyTable
  /\ submit = NoSubmit
  /\ PagesIdle

DeleteNext ==
  \/ \E u \in DOMAIN users, c \in DOMAIN customers, s \in DOMAIN services,
        start \in StartTimes :
       BookingsHandleSubmit(u, c, s, start, FALSE, FALSE, FALSE)
  \/ \E a \in Actors, t \in {"bookings", "payments"} :
       \E row \in RowsOf(DB, t) : ApiInsert(a, t, row)
  \/ \E u \in DOMAIN users, b \in DOMAIN bookings : BookingsHandleDelete(u, b)
  \/ \E u \in DOMAIN users, c \in DOMAIN customers : CustomersHandleDelete(u, c)
  \/ \E u \in DOMAIN users, st \in DOMAIN staff : StaffHandleDelete(u, st)
  \/ \E u \in DOMAIN users, s \in DOMAIN services : ServicesHandleDelete(u, s)
  \/ \E a \in Actors, t \in {"bookings", "payments", "customers", "staff", "services"} :
       \E id \in DOMAIN DB[t] : ApiDelete(a, t, id)

SpecDelete == DeleteInit /\ [][DeleteNext]_vars

\* The Services page of each user, starting from one stored service.
ServicesInit ==
  /\ AfterCoreSchema
  /\ users = SeedUsers
  /\ customers = EmptyTable
  /\ services = (1 :> [business_id |-> 1, price |-> 10, duration |-> 2, is_active |-> TRUE])
  /\ staff = EmptyTable
  /\ bookings = EmptyTable
  /\ payments = EmptyTable
  /\ booking_settings = EmptyTable
  /\ business_hours = EmptyTable
  /\ staff_invites = EmptyTable
  /\ submit = NoSubmit
  /\ PagesIdle

ServicesNext ==
  \/ \E u \in DOMAIN users, editing \in {NULL} \cup DOMAIN services :
       ServicesOpenModal(u, editing)
  \/ \E text \in NumberTexts : ServicesChangeDuration(text)
  \/ \E text \in NumberTexts : ServicesChangePrice(text)
  \/ \E lost \in BOOLEAN : ServicesHandleSubmit(lost)
  \/ ServicesCloseModal
  \/ \E u \in DOMAIN users, s \in DOMAIN services : ServicesHandleDelete(u, s)

SpecServices == ServicesInit /\ [][ServicesNext]_vars

\* The booking settings tab of each user, beside direct requests that
\* carry deposit percentages in and out of range.
DepositValues == {-1, 0, 50, 101}

SettingsNext ==
  \/ \E u \in DOMAIN users : SettingsOpen(u)
  \/ \E text \in DepositTexts : SettingsChangeDeposit(text)
  \/ \E lost \in BOOLEAN : HandleSaveBookingSettings(lost)
  \/ SettingsLeave
  \/ \E a \in Actors :
       \E row \in [business_id : Businesses, deposit_percentage : DepositValues,
                   email_notifications : {TRUE}] :
         ApiInsert(a, "booking_settings", row)
  \/ \E a \in Actors, id \in DOMAIN booking_settings :
       \E row \in [business_id : Businesses, deposit_percentage : DepositValues,
                   email_notifications : {TRUE}] :
         ApiUpdate(a, "booking_settings", id, row)
  \/ \E a \in Actors, id \in DOMAIN booking_settings :
       ApiDelete(a, "booking_settings", id)

SpecSettings == RlsInit /\ [][SettingsNext]_vars

\* The three operations whose requests are followed: booking creation,
\* saving the notification preferences, and registration by invite, each
\* with requests that fail.  A behaviour stays on the page it starts on:
\* Bookings, Register, or (no modal yet) Settings.
OnPage(p) == [page |-> p]

CallsInit ==
  /\ applied = {"CoreSchema", "CreateStaffInvites", "MinimalUsersPolicies"}
  /\ tables = CoreTables \cup CreateStaffInvites.makes
  /\ rls = [t \in AppTables |-> TRUE]
  /\ policies = {p \in CorePolicies : p.table \notin MinimalUsersPolicies.dropAll}
                  \cup CreateStaffInvites.creates \cup MinimalUsersPolicies.creates
  /\ users = SeedUsers
  /\ customers = (1 :> [business_id |-> 1, last_visit |-> NULL])
  /\ services = (1 :> [business_id |-> 1, price |-> 10, duration |-> 2, is_active |-> TRUE])
  /\ staff = EmptyTable
  /\ bookings = EmptyTable
  /\ payments = EmptyTable
  /\ booking_settings = EmptyTable
  /\ business_hours = EmptyTable
  /\ staff_invites = EmptyTable
  /\ submit = NoSubmit
  /\ form \in {NoForm, OnPage("bookings"), OnPage("register")}
  /\ now = 0
  /\ accounts = {}
  /\ reg = [r \in Registrants |-> NotStarted]
  /\ session = NoUser
  /\ user = NoUser
  /\ fetches = {}
  /\ call = NoCall

CallsNext ==
  \/ /\ form = OnPage("bookings")
     /\ \E u \in DOMAIN users, c \in DOMAIN customers, s \in DOMAIN services,
           start \in StartTimes, lb \in BOOLEAN, lc \in BOOLEAN, lp \in BOOLEAN :
          BookingsHandleSubmit(u, c, s, start, lb, lc, lp)
  \/ \E u \in DOMAIN users : SettingsOpen(u)
  \/ SettingsToggleNotifications
  \/ \E lostUpsert \in BOOLEAN, lostUpdate \in BOOLEAN :
       HandleSaveNotifications(lostUpsert, lostUpdate)
  \/ SettingsLeave
  \/ form = OnPage("register") /\ \E u \in DOMAIN users : GenerateInvite(u)
  \/ /\ form = OnPage("register")
     /\ \E email \in Emails, token \in 1 .. MaxInvites : RegisterValidate("r1", email, token)
  \/ form = OnPage("register") /\ \E outcome \in SignUpOutcomes : RegisterSignUp("r1", outcome)
  \/ form = OnPage("register") /\ RegisterMarkUsed("r1")

SpecCalls == CallsInit /\ [][CallsNext]_vars

\* Updates of one's own users row, beside the customers of both
\* businesses.
Roles == {"BUSINESS_OWNER", "STAFF"}

ProfileUpdates ==
  [role : Roles] \cup [business_id : Businesses] \cup [role : Roles, business_id : Businesses]

ProfileNext ==
  \/ \E u \in DOMAIN users, updates \in ProfileUpdates : UpdateProfile(u, updates)
  \/ \E a \in Actors, row \in RowsOf(DB, "customers") : ApiInsert(a, "customers", row)
  \/ \E a \in Actors, id \in DOMAIN customers : ApiDelete(a, "customers", id)

SpecProfile == RlsInit /\ [][ProfileNext]_vars

\* Invites and registrations on a database on which the core schema and
\* both scripts of the staff_invites migration have been run.
RegInit ==
  /\ applied = {"CoreSchema", "CreateStaffInvites", "MinimalUsersPolicies"}
  /\ tables = CoreTables \cup CreateStaffInvites.makes
  /\ rls = [t \in AppTables |-> TRUE]
  /\ policies = {p \in CorePolicies : p.table \notin MinimalUsersPolicies.dropAll}
                  \cup CreateStaffInvites.creates \cup MinimalUsersPolicies.creates
  /\ users = SeedUsers
  /\ customers = EmptyTable
  /\ services = EmptyTable
  /\ staff = EmptyTable
  /\ bookings = EmptyTable
  /\ payments = EmptyTable
  /\ booking_settings = EmptyTable
  /\ business_hours = EmptyTable
  /\ staff_invites = EmptyTable
  /\ submit = NoSubmit
  /\ PagesIdle

RegNext ==
  \/ \E u \in DOMAIN users : GenerateInvite(u)
  \/ \E r \in Registrants, email \in Emails, token \in 1 .. MaxInvites :
       RegisterValidate(r, email, token)
  \/ \E r \in Registrants, outcome \in SignUpOutcomes : RegisterSignUp(r, outcome)
  \/ \E r \in Registrants : RegisterMarkUsed(r)
  \/ \E a \in Actors, i \in DOMAIN staff_invites : ApiMarkUsed(a, i)

SpecReg == RegInit /\ [][RegNext]_vars

\* One registration against the clock.
ExpiryNext ==
  \/ Tick
  \/ \E u \in DOMAIN users : GenerateInvite(u)
  \/ \E email \in Emails, token \in 1 .. MaxInvites :
       RegisterValidate("r1", email, token)
  \/ \E outcome \in SignUpOutcomes : RegisterSignUp("r1", outcome)
  \/ RegisterMarkUsed("r1")
  \/ \E a \in Actors, i \in DOMAIN staff_invites : ApiMarkUsed(a, i)

SpecExpiry == RegInit /\ [][ExpiryNext]_vars

\* One browser signing in and out: a verified owner, an unverified owner,
\* an unverified staff member and an account whose profile is missing.
AuthInit ==
  /\ applied = {"CoreSchema", "CreateStaffInvites", "MinimalUsersPolicies"}
  /\ tables = CoreTables \cup CreateStaffInvites.makes
  /\ rls = [t \in AppTables |-> TRUE]
  /\ policies = {p \in CorePolicies : p.table \notin MinimalUsersPolicies.dropAll}
                  \cup CreateStaffInvites.creates \cup MinimalUsersPolicies.creates
  /\ users = [SeedUsers EXCEPT !["o2"].email_verified = FALSE]
  /\ customers = EmptyTable
  /\ services = EmptyTable
  /\ staff = EmptyTable
  /\ bookings = EmptyTable
  /\ payments = EmptyTable
  /\ booking_settings = EmptyTable
  /\ business_hours = EmptyTable
  /\ staff_invites = EmptyTable
  /\ submit = NoSubmit
  /\ form = NoForm
  /\ now = 0
  /\ accounts = {[email |-> "e1", role |-> "BUSINESS_OWNER", token |-> NULL]}
  /\ reg = [r \in Registrants |-> NotStarted]
  /\ session = NoUser
  /\ user = NoUser
  /\ fetches = {}
  /\ call = NoCall

AuthNext ==
  \/ \E u \in DOMAIN users \cup {a.email : a \in accounts}, valid \in BOOLEAN :
       SignInPassword(u, valid)
  \/ SignInProfile
  \/ \E lost \in BOOLEAN : SignInSignOut(lost)
  \/ \E u \in fetches, served \in BOOLEAN : ProfileArrives(u, served)
  \/ SignOut

SpecAuth == AuthInit /\ [][AuthNext]_vars

-----------------------------------------------------------------------------
(* Booking creation and the rows that depend on it                         *)

PaymentsOf(b) == {p \in DOMAIN payments : payments[p].booking_id = b}

Finished == submit.state \in {"saved", "error"}

AllTookEffect ==
  /\ submit.booking \in DOMAIN bookings
  /\ \E p \in PaymentsOf(submit.booking) :
       payments[p].amount = submit.price /\ payments[p].status = "PENDING"
  /\ customers[submit.customer].last_visit = submit.start_time

NoneTookEffect ==
  /\ DOMAIN bookings = submit.before.bookings
  /\ DOMAIN payments = submit.before.payments
  /\ customers[submit.customer].last_visit = submit.before.last_visit

\* C1: when Bookings.handleSubmit has finished creating a booking of a
\* priced service, the booking row, its PENDING payment row of the
\* service's price and the customer's last_visit are either all in place or
\* none of them is, also when a request after the booking insert failed.
C1_AtomicCreate ==
  (Finished /\ submit.price > 0) => (AllTookEffect \/ NoneTookEffect)

\* C3: every booking's customer and service belong to the booking's own
\* business, whoever inserted the booking.
C3_SameBusiness ==
  \A b \in DOMAIN bookings :
    /\ customers[bookings[b].customer_id].business_id = bookings[b].business_id
    /\ services[bookings[b].service_id].business_id = bookings[b].business_id

-----------------------------------------------------------------------------
(* Row level security as the clients meet it                               *)

\* The rows of other businesses among those a request changed.
Foreign(u, touched) == {x \in touched : x[2] # users[u].business_id}

Requests(a, t) ==
  {Insert(DB, a, t, row) : row \in RowsOf(DB, t)}
    \cup {Update(DB, a, t, i, row) : i \in DOMAIN DB[t], row \in RowsOf(DB, t)}
    \cup {Delete(DB, a, t, i) : i \in DOMAIN DB[t]}

TenantTables ==
  {"customers", "bookings", "services", "staff", "payments", "booking_settings"}

\* C2: an authenticated user reads only rows of the business in their
\* users row, and no insert, update or delete of theirs changes a row of
\* another business.
C2_TenantIsolation ==
  \A u \in DOMAIN users, t \in TenantTables :
    /\ \A i \in Visible(DB, u, t) : RowBiz(DB, t, DB[t][i]) = users[u].business_id
    /\ \A r \in Requests(u, t) : Foreign(u, r.touched) = {}

OwnerTables == {"services", "staff", "business_hours", "booking_settings"}
SharedTables == {"customers", "bookings", "payments"}

StaffUsers == {u \in DOMAIN users : users[u].role = "STAFF"}
OwnRows(u, t) == {i \in DOMAIN DB[t] : RowBiz(DB, t, DB[t][i]) = users[u].business_id}

\* C5: STAFF read the services, staff, business_hours and booking_settings
\* of their business and change none of them; only an owner of the row's
\* business changes such a row; owner and staff alike change the customers,
\* bookings and payments of their business.
C5_RoleBasedAccess ==
  /\ \A u \in StaffUsers, t \in OwnerTables :
       /\ OwnRows(u, t) \subseteq Visible(DB, u, t)
       /\ \A r \in Requests(u, t) : r.touched = {}
  /\ \A a \in Actors, t \in OwnerTables : \A r \in Requests(a, t) :
       \A x \in r.touched : x[1] = t => x[2] \in OwnerBiz(DB, a)
  /\ \A u \in DOMAIN users, t \in SharedTables : \A i \in OwnRows(u, t) :
       /\ i \in Visible(DB, u, t)
       /\ Delete(DB, u, t, i).touched # {}
       /\ \A row \in RowsOf(DB, t) :
            (RowBiz(DB, t, row) = users[u].business_id /\ ConstraintsOk(DB, t, i, row))
              => Update(DB, u, t, i, row).ok

\* C6: the anon key reads active services and active staff only, reads no
\* customers, bookings or payments, inserts bookings, and neither updates
\* nor deletes a booking.
C6_AnonymousVisibility ==
  /\ \A i \in Visible(DB, Anon, "services") : services[i].is_active
  /\ \A i \in Visible(DB, Anon, "staff") : staff[i].is_active
  /\ \A t \in {"customers", "bookings", "payments"} : Visible(DB, Anon, t) = {}
  /\ \A row \in RowsOf(DB, "bookings") :
       FreeIds(DB, "bookings") # {} => Insert(DB, Anon, "bookings", row).ok
  /\ \A r \in Requests(Anon, "bookings") : \A x \in r.touched :
       r.id \notin DOMAIN bookings

-----------------------------------------------------------------------------
(* Row level security across the migration scripts                         *)

\* C7: after any sequence of the repository's migration scripts, every
\* table that exists has row level security enabled: no script leaves a
\* table it disabled without enabling it again.
C7_RlsEnabledOnAllTables == \A t \in tables : rls[t]

-----------------------------------------------------------------------------
(* Staff invites                                                           *)

\* C8: a token is single-use: however the Register.handleSubmit executions
\* that present it interleave, at most one STAFF account is created with it.
C8_SingleUse ==
  \A token \in 1 .. MaxInvites :
    Cardinality({a \in accounts : a.token = token /\ a.role = "STAFF"}) <= 1

\* The token check of a registration found the invite unused and not yet
\* expired.
InTime(r) ==
  \E inv \in reg[r].presented : ~inv.used /\ reg[r].checked < inv.expires_at

Refused(r) ==
  reg[r].pc = "error" /\ reg[r].message = "Invalid or expired invite link"

\* C9: an invite expires seven days after generateInvite made it; a
\* registration gets past the token check only if the invite was unused and
\* the time of the check strictly before expires_at; a registration checked
\* at or after expires_at, or with a used invite, fails with 'Invalid or
\* expired invite link' and creates no account.
C9_ValidSevenDays ==
  /\ \A i \in DOMAIN staff_invites :
       staff_invites[i].expires_at = staff_invites[i].created_at + SevenDays
  /\ \A r \in Registrants : reg[r].pc # "form" =>
       IF InTime(r) THEN ~Refused(r)
       ELSE Refused(r) /\ ~ \E a \in accounts : a.email = reg[r].email

\* A registration refused on the very day the invite expires.
C9_Witness ==
  \E r \in Registrants :
    /\ Refused(r)
    /\ \E inv \in reg[r].presented :
         ~inv.used /\ reg[r].checked = inv.expires_at
                   /\ inv.expires_at = inv.created_at + SevenDays

-----------------------------------------------------------------------------
(* Email verification                                                      *)

Unverified(role) ==
  call.id \in DOMAIN users /\ users[call.id].role = role
                           /\ ~users[call.id].email_verified

\* C10: signIn of a BUSINESS_OWNER whose email is not verified throws the
\* verification error and leaves the context user null; signIn of a STAFF
\* member whose email is not verified returns and sets the context user.
C10_VerificationForOwnersOnly ==
  /\ (Unverified("BUSINESS_OWNER") /\ call.pc \in {"returned", "thrown"}
        /\ call.error # "Invalid email or password") =>
       (call.pc = "thrown" /\ user = NoUser)
  /\ (Unverified("STAFF") /\ call.pc \in {"returned", "thrown"}
        /\ call.error # "Invalid email or password") =>
       (call.pc = "returned" /\ user = call.id)

-----------------------------------------------------------------------------
(* Booking status                                                          *)

SameBut(row, old, fields) ==
  /\ DOMAIN row = DOMAIN old
  /\ \A f \in DOMAIN old \ fields : row[f] = old[f]

\* C11 as claimed: from every status to every status updateBookingStatus
\* succeeds, and the database afterwards differs from the one before in the
\* booking's status only.
C11_OnlyStatusChanges ==
  \A u \in DOMAIN users : \A b \in PageBookings(DB, u) : \A newStatus \in Statuses :
    LET r == StatusUpdate(DB, u, b, newStatus)
    IN r.ok /\ r.db = [DB EXCEPT !.bookings[b].status = newStatus]

\* C11 amended: from every status to every status updateBookingStatus
\* succeeds and leaves the booking in the new status; no other booking, no
\* payment and no other table changes, and of the booking's other fields
\* only updated_at does, which the trigger sets to now().
C11_AnyStatusToAny ==
  \A u \in DOMAIN users : \A b \in PageBookings(DB, u) : \A newStatus \in Statuses :
    LET r == StatusUpdate(DB, u, b, newStatus)
    IN /\ r.ok
       /\ r.db.bookings[b].status = newStatus
       /\ r.db.bookings[b].updated_at = now
       /\ SameBut(r.db.bookings[b], bookings[b], {"status", "updated_at"})
       /\ r.db = [DB EXCEPT !.bookings[b] = r.db.bookings[b]]

\* A booking moved back from a final status on a later day, its payment
\* untouched.
C11_Witness ==
  \E b \in DOMAIN bookings :
    /\ bookings[b].status = "COMPLETED"
    /\ bookings[b].updated_at > 0
    /\ StatusUpdate(DB, "s1", b, "PENDING").db.bookings[b].status = "PENDING"
    /\ \E p \in PaymentsOf(b) : payments[p].status = "PENDING"

\* C12: no create or update of a booking made through the form is rejected
\* because of the bookings that are already stored: whenever the table has
\* room, the insert of every form input is accepted, and so is the update of
\* every listed booking to every form input, also when the new interval
\* overlaps a booking of the same customer or the same staff member.
C12_NoConflictDetection ==
  \A u \in DOMAIN users : \A c \in FormCustomers(DB, u) :
    \A s \in FormServices(DB, u) : \A start \in FormTimes :
      /\ FreeIds(DB, "bookings") # {}
           => InsertReturning(DB, u, "bookings", BookingData(DB, u, c, s, start)).ok
      /\ \A b \in PageBookings(DB, u) :
           LET row == EditData(DB, u, b, c, s, start)
               r == Update(DB, u, "bookings", b, row)
           IN r.ok /\ r.db.bookings[b] = Stamped("bookings", row)

\* Two stored bookings of one business, of the same customer and the same
\* assigned staff member, that start at different times and overlap.
C12_Witness ==
  \E b1 \in DOMAIN bookings : \E b2 \in Conflicts(DB, b1, bookings[b1]) :
    /\ bookings[b1].customer_id = bookings[b2].customer_id
    /\ bookings[b1].staff_id # NULL
    /\ bookings[b1].staff_id = bookings[b2].staff_id
    /\ bookings[b1].start_time # bookings[b2].start_time

-----------------------------------------------------------------------------
(* Deletion                                                                *)

\* A delete request that removed its row.
Deleted(r, id) == r.ok /\ r.id = id

\* C13: in every reachable state every payment's booking exists and every
\* booking's customer and service exist; a delete of a booking removes that
\* booking and its payments and nothing else; a delete of a customer
\* removes the customer, that customer's bookings and their payments and
\* nothing else; a delete of a staff row removes it, keeps every booking
\* and every payment, and sets staff_id to NULL on the bookings that had it.
C13_DeleteFollowsForeignKeys ==
  /\ \A p \in DOMAIN payments : payments[p].booking_id \in DOMAIN bookings
  /\ \A b \in DOMAIN bookings :
       /\ bookings[b].customer_id \in DOMAIN customers
       /\ bookings[b].service_id \in DOMAIN services
  /\ \A a \in Actors :
       /\ \A b \in DOMAIN bookings :
            LET r == Delete(DB, a, "bookings", b)
            IN Deleted(r, b) =>
                 r.db = [DB EXCEPT !.bookings = Without(bookings, {b}),
                                   !.payments = Without(payments, PaymentsOf(b))]
       /\ \A c \in DOMAIN customers :
            LET r == Delete(DB, a, "customers", c)
                bs == {b \in DOMAIN bookings : bookings[b].customer_id = c}
                ps == {p \in DOMAIN payments : payments[p].booking_id \in bs}
            IN Deleted(r, c) =>
                 r.db = [DB EXCEPT !.customers = Without(customers, {c}),
                                   !.bookings = Without(bookings, bs),
                                   !.payments = Without(payments, ps)]
       /\ \A st \in DOMAIN staff :
            LET r == Delete(DB, a, "staff", st)
            IN Deleted(r, st) =>
                 /\ r.db.staff = Without(staff, {st})
                 /\ r.db.payments = payments
                 /\ r.db.customers = customers /\ r.db.services = services
                 /\ DOMAIN r.db.bookings = DOMAIN bookings
                 /\ \A b \in DOMAIN bookings :
                      IF bookings[b].staff_id = st
                      THEN /\ r.db.bookings[b].staff_id = NULL
                           /\ SameBut(r.db.bookings[b], bookings[b],
                                      {"staff_id", "updated_at"})
                      ELSE r.db.bookings[b] = bookings[b]

\* Customer 1 and the staff member have been deleted; customer 2 still has
\* a booking with a payment, and deleting customer 2 now empties both
\* tables.
C13_Witness ==
  /\ DOMAIN customers = {2}
  /\ staff = EmptyTable
  /\ \E b \in DOMAIN bookings : PaymentsOf(b) # {}
  /\ LET r == Delete(DB, "o1", "customers", 2)
     IN Deleted(r, 2) /\ r.db.bookings = EmptyTable /\ r.db.payments = EmptyTable

-----------------------------------------------------------------------------
(* Services form                                                           *)

\* C14: whatever the open Services form holds, handleSubmit of a user who
\* has a business writes nothing when price < 0 or duration <= 0, leaves
\* the error 'Price cannot be negative' (price < 0) or 'Duration must be
\* greater than 0' (price >= 0, duration <= 0) with submitting false; and
\* every stored service has price >= 0 and duration > 0.
C14_ServiceValidation ==
  /\ form.page = "services" /\ users[form.user].business_id # NULL =>
       \A lost \in BOOLEAN :
         LET r == ServiceSubmit(DB, form, lost)
         IN /\ form.price < 0 =>
                 /\ r.db = DB
                 /\ r.form.error = "Price cannot be negative"
                 /\ ~r.form.submitting
            /\ form.price >= 0 /\ form.duration <= 0 =>
                 /\ r.db = DB
                 /\ r.form.error = "Duration must be greater than 0"
                 /\ ~r.form.submitting
  /\ \A s \in DOMAIN services : services[s].price >= 0 /\ services[s].duration > 0

\* The form shows the duration error for a duration of 0 that was typed
\* over a stored service, next to a service that was written through it.
C14_Witness ==
  /\ form.page = "services"
  /\ form.editing # NULL
  /\ form.duration = 0
  /\ form.error = "Duration must be greater than 0"
  /\ ~form.submitting
  /\ \E s \in DOMAIN services : services[s].price = 2 /\ services[s].duration = 30

-----------------------------------------------------------------------------
(* Deposit percentage                                                      *)

\* C15: whatever the booking settings form holds, the row that
\* handleSaveBookingSettings sends has a deposit_percentage in 0..100, and
\* every stored booking_settings row has a deposit_percentage in 0..100.
C15_DepositInRange ==
  /\ form.page = "settings" =>
       SettingsPayload(DB, form).deposit_percentage \in 0 .. 100
  /\ \A i \in DOMAIN booking_settings :
       booking_settings[i].deposit_percentage \in 0 .. 100

\* A save has succeeded and stored 100, the clamped value of the typed 101.
C15_Witness ==
  /\ form.page = "settings"
  /\ form.success = "Booking settings saved successfully"
  /\ \E i \in DOMAIN booking_settings :
       /\ booking_settings[i].deposit_percentage = 100
       /\ booking_settings[i].business_id = users[form.user].business_id

-----------------------------------------------------------------------------
(* Requests issued after a failed request                                  *)

\* The requests of a trace that are issued in the error branch of another.
Reactions(calls) == {calls[n] : n \in {m \in DOMAIN calls : calls[m].handles # ""}}

Failed(calls, name) == \E n \in DOMAIN calls : calls[n].call = name /\ ~calls[n].ok

\* The traces the three operations can produce in the current state.
BookingTraces ==
  {CreateBooking(DB, u, c, s, start, lb, lc, lp).calls :
     <<u, c, s, start, lb, lc, lp>> \in
       {x \in (DOMAIN users) \X (DOMAIN customers) \X (DOMAIN services) \X StartTimes
                \X BOOLEAN \X BOOLEAN \X BOOLEAN :
          x[2] \in FormCustomers(DB, x[1]) /\ x[3] \in FormServices(DB, x[1])}}

NotificationResults ==
  IF form.page = "settings"
  THEN {NotificationsSave(DB, form, lu, lp) : <<lu, lp>> \in BOOLEAN \X BOOLEAN}
  ELSE {}

SignUpTraces ==
  {SignUp(DB, accounts, reg[r], o, k).calls :
     <<r, o, k>> \in {x \in Registrants \X SignUpOutcomes \X (1 .. MaxAttempts) :
                        reg[x[1]].pc = "signUp"}}

-----------------------------------------------------------------------------
(* The profile of an invited staff member                                  *)

\* C17: once Register.handleSubmit has gone through with an invite of
\* business B, the users row of the registered email has role STAFF and
\* business_id B.
C17_InvitedStaffJoinsBusiness ==
  \A r \in Registrants :
    reg[r].pc = "done" =>
      /\ reg[r].email \in DOMAIN users
      /\ users[reg[r].email].role = "STAFF"
      /\ users[reg[r].email].business_id = reg[r].business_id

\* C18: once Register.handleSubmit has gone through with an invite token,
\* the staff_invites row of that token has used = true, and the lookup that
\* validateInviteToken and handleSubmit make for the token finds no row.
C18_InviteUsedAfterRegistration ==
  \A r \in Registrants :
    reg[r].pc = "done" =>
      /\ \A i \in DOMAIN staff_invites :
           staff_invites[i].token = reg[r].token => staff_invites[i].used
      /\ FindInvite(DB, Anon, reg[r].token, now) = {}

\* C19: a read of staff_invites that names no token (select * by any
\* client, or loadInvites of the Staff page) returns no unused invite of a
\* business to a client who is not an owner of that business.
C19_TokensSecret ==
  /\ \A a \in Actors \cup DOMAIN users :
       \A i \in Visible(DB, a, "staff_invites") :
         ~staff_invites[i].used => staff_invites[i].business_id \in OwnerBiz(DB, a)
  /\ \A u \in DOMAIN users :
       \A i \in LoadInvites(DB, u) :
         ~staff_invites[i].used => staff_invites[i].business_id \in OwnerBiz(DB, u)

-----------------------------------------------------------------------------
(* The own-profile update                                                  *)

\* C20: where no business is set up and no invite is redeemed, no update
\* of their own profile gives a user access to another tenant's rows: every
\* user reads customers of their original business only.
C20_NoPrivilegeEscalation ==
  \A u \in DOMAIN users :
    \A c \in Visible(DB, u, "customers") :
      customers[c].business_id = SeedUsers[u].business_id

-----------------------------------------------------------------------------
(* The Router and ProtectedRoute                                            *)

DashboardPages ==
  {"/dashboard/setup", "/dashboard/bookings", "/dashboard/customers",
   "/dashboard/services", "/dashboard/analytics", "/dashboard/staff",
   "/dashboard/payments", "/dashboard/settings"}

\* path.startsWith('/dashboard') for the paths of the model.
StartsWithDashboard(path) ==
  path \in DashboardPages \cup {"/dashboard", "/dashboard/other"}

Paths == {"/", "/login", "/register", "/other"}
           \cup DashboardPages \cup {"/dashboard", "/dashboard/other"}

Render(view) == [view |-> view, redirect |-> ""]
RedirectTo(path) == [view |-> "null", redirect |-> path]

\* What Router returns for a path and the context's user and loading, the
\* conditions in the order of the code; window.location.href = x is the
\* redirect to x.
Router(path, usr, loading) ==
  IF loading THEN Render("Spinner")
  ELSE IF path = "/login"
    THEN IF usr # NoUser THEN RedirectTo("/dashboard") ELSE Render("Login")
  ELSE IF path = "/register"
    THEN IF usr # NoUser THEN RedirectTo("/dashboard") ELSE Render("Register")
  ELSE IF usr = NoUser THEN RedirectTo("/login")
  ELSE IF path \in DashboardPages THEN Render(path)
  ELSE IF StartsWithDashboard(path) THEN Render("Dashboard")
  ELSE IF path = "/"
    THEN IF usr # NoUser THEN RedirectTo("/dashboard") ELSE Render("Login")
  ELSE Render("404")

NoRole == ""

\* What ProtectedRoute returns; role is the role of the context's user.
ProtectedRoute(usr, role, loading, requiredRole) ==
  IF loading THEN Render("Spinner")
  ELSE IF usr = NoUser THEN RedirectTo("/login")
  ELSE IF requiredRole # NoRole /\ role # requiredRole THEN RedirectTo("/unauthorized")
  ELSE Render("children")

Rendered == Router(form.path, user, form.loading)

\* loadUser of the AuthProvider's effect: the stored session is read, its
\* profile is fetched and set, and loading ends.
LoadUser ==
  /\ form.page = "router"
  /\ form.loading
  /\ form' = [form EXCEPT !.loading = FALSE]
  /\ user' = IF session # NoUser /\ session \in Visible(DB, session, "users")
             THEN session ELSE user
  /\ UNCHANGED <<migVars, dbVars, submit, regVars, session, fetches, call>>

\* A click on a link of the application or the browser's back button:
\* setPath(newPath).
RouterNavigate(path) ==
  /\ form.page = "router"
  /\ path # form.path
  /\ form' = [form EXCEPT !.path = path]
  /\ UNCHANGED <<migVars, dbVars, submit, regVars, authVars>>

\* window.location.href = x loads the application again at x: the provider
\* is mounted anew with user = null and loading = true; the session stays in
\* the browser's storage.
RouterRedirect ==
  /\ form.page = "router"
  /\ Rendered.redirect # ""
  /\ form' = [form EXCEPT !.path = Rendered.redirect, !.loading = TRUE]
  /\ user' = NoUser
  /\ fetches' = {}
  /\ call' = NoCall
  /\ UNCHANGED <<migVars, dbVars, submit, regVars, session>>

RouterInit ==
  /\ applied = {"CoreSchema", "CreateStaffInvites", "MinimalUsersPolicies"}
  /\ tables = CoreTables \cup CreateStaffInvites.makes
  /\ rls = [t \in AppTables |-> TRUE]
  /\ policies = {p \in CorePolicies : p.table \notin MinimalUsersPolicies.dropAll}
                  \cup CreateStaffInvites.creates \cup MinimalUsersPolicies.creates
  /\ users = [SeedUsers EXCEPT !["o2"].email_verified = FALSE]
  /\ customers = EmptyTable
  /\ services = EmptyTable
  /\ staff = EmptyTable
  /\ bookings = EmptyTable
  /\ payments = EmptyTable
  /\ booking_settings = EmptyTable
  /\ business_hours = EmptyTable
  /\ staff_invites = EmptyTable
  /\ submit = NoSubmit
  /\ form \in {[page |-> "router", path |-> p, loading |-> TRUE] : p \in Paths}
  /\ now = 0
  /\ accounts = {}
  /\ reg = [r \in Registrants |-> NotStarted]
  /\ session \in {NoUser, "o1", "s1"}
  /\ user = NoUser
  /\ fetches = {}
  /\ call = NoCall

RouterNext ==
  \/ LoadUser
  \/ \E path \in Paths : RouterNavigate(path)
  \/ RouterRedirect
  \/ /\ Rendered.view = "Login"
     /\ \E u \in DOMAIN users, valid \in BOOLEAN : SignInPassword(u, valid)
  \/ SignInProfile
  \/ \E lost \in BOOLEAN : SignInSignOut(lost)
  \/ \E u \in fetches, served \in BOOLEAN : ProfileArrives(u, served)
  \/ /\ Rendered.view \in DashboardPages \cup {"Dashboard"}
     /\ SignOut

SpecRouter == RouterInit /\ [][RouterNext]_vars

PublicPaths == {"/", "/login", "/register"}

\* C21: while loading the Router renders the spinner only; with no user and
\* loading over it renders Login or Register for '/', '/login' and
\* '/register' and redirects every other path to /login; ProtectedRoute
\* renders its children only for a user who matches requiredRole.
C21_UnauthenticatedSeeNoDashboard ==
  /\ form.loading => Rendered = Render("Spinner")
  /\ (~form.loading /\ user = NoUser) =>
       IF form.path \in PublicPaths
       THEN Rendered.view \in {"Login", "Register"}
       ELSE Rendered = RedirectTo("/login")
  /\ \A requiredRole \in Roles \cup {NoRole} :
       LET role == IF user = NoUser THEN NoRole ELSE users[user].role
       IN ProtectedRoute(user, role, form.loading, requiredRole) = Render("children")
            => /\ user # NoUser
               /\ requiredRole # NoRole => role = requiredRole

\* What of C21 the Router does keep: without a user no page of the
\* dashboard is rendered, on any path.
C21_NoDashboardWithoutUser ==
  user = NoUser => Rendered.view \in {"Spinner", "Login", "Register", "null"}

-----------------------------------------------------------------------------
(* Deleting a service that has bookings                                    *)

\* Services.handleDelete once confirmed: the delete by id, and the alert of
\* the catch block when the request returned an error; without an error the
\* list is loaded again and nothing is reported.
ServicesDeleteOutcome(d, u, s) ==
  LET r == Delete(d, u, "services", s)
  IN [db |-> r.db, alert |-> IF r.ok THEN "" ELSE "Failed to delete service"]

\* C22: for every user of the Services page and every listed service that
\* at least one booking references, handleDelete alerts 'Failed to delete
\* service' and leaves services, bookings and payments as they were.
C22_RestrictedDeleteReported ==
  \A u \in DOMAIN users : \A s \in PageRows(DB, u, "services") :
    BookingsOfService(DB, s) # {} =>
      LET o == ServicesDeleteOutcome(DB, u, s)
      IN /\ o.alert = "Failed to delete service"
         /\ o.db.services = services
         /\ o.db.bookings = bookings
         /\ o.db.payments = payments

\* What holds of C22 for every user: the tables are unchanged, and a
\* BUSINESS_OWNER of the service's business gets the alert.
C22_RestrictedDeleteKeepsRows ==
  \A u \in DOMAIN users : \A s \in PageRows(DB, u, "services") :
    BookingsOfService(DB, s) # {} =>
      LET o == ServicesDeleteOutcome(DB, u, s)
      IN /\ o.db = DB
         /\ services[s].business_id \in OwnerBiz(DB, u) =>
              o.alert = "Failed to delete service"

-----------------------------------------------------------------------------
(* signUp of the AuthProvider, step by step                                *)

VerifyFirst == "Please check your email to verify your account"
VerifyBeforeContinuing ==
  "Please check your email to verify your account before continuing"

\* supabase.auth.signUp for an email without an account.  What the project
\* is set up to do is not in the repository: withSession says whether a
\* session is issued at once (its SIGNED_IN event reaches the callback),
\* confirmed whether email_confirmed_at is set in the answer, trigger whether
\* handle_new_user is installed and has made the profile.  An email that
\* has an account is refused.
SignUpAuth(email, role, withSession, confirmed, trigger) ==
  /\ NoCallRunning
  /\ session = NoUser /\ user = NoUser
  /\ confirmed => withSession
  /\ IF \E a \in accounts : a.email = email
     THEN /\ call' = [pc |-> "thrown", id |-> email, role |-> role, confirmed |-> FALSE,
                      error |-> "An account with this email already exists"]
          /\ UNCHANGED <<accounts, dbVars, session, user, fetches>>
     ELSE /\ accounts' = accounts \cup {[email |-> email, role |-> role, token |-> NULL]}
          /\ SetDB(IF trigger /\ email \notin DOMAIN users
                   THEN [DB EXCEPT !.users =
                           (email :> [id |-> email, role |-> role, business_id |-> NULL,
                                      email_verified |-> confirmed]) @@ users]
                   ELSE DB)
          /\ IF withSession
             THEN session' = email /\ OnAuthStateChange(email)
             ELSE UNCHANGED <<session, user, fetches>>
          /\ call' = [pc |-> "firstRead", id |-> email, role |-> role,
                      confirmed |-> confirmed, error |-> ""]
  /\ UNCHANGED <<migVars, form, submit, now, reg>>

Client == IF session = NoUser THEN Anon ELSE session

\* The first select of the profile, as whoever the client is by then.
SignUpFirstRead ==
  /\ call.pc = "firstRead"
  /\ call' = [call EXCEPT !.pc = IF call.id \in Visible(DB, Client, "users")
                                  THEN "setUser" ELSE "poll"]
  /\ UNCHANGED <<migVars, form, dbVars, submit, regVars, session, user, fetches>>

\* The loop over getSession and the two tests after it.
SignUpPoll ==
  /\ call.pc = "poll"
  /\ call' = IF session # NoUser THEN [call EXCEPT !.pc = "insert"]
             ELSE [call EXCEPT !.pc = "thrown",
                               !.error = IF call.confirmed THEN "Session not established"
                                         ELSE VerifyFirst]
  /\ UNCHANGED <<migVars, form, dbVars, submit, regVars, session, user, fetches>>

\* The insert of the profile; on 23505 the profile is read again; any
\* other error (a request that is lost among them), or a second read
\* without a row, leads to signOut.
SignUpInsert(lost) ==
  /\ call.pc = "insert"
  /\ LET row == [id |-> call.id, role |-> call.role, business_id |-> NULL,
                 email_verified |-> call.confirmed]
         d2 == InsertProfile(DB, Client, row)
     IN IF lost
        THEN /\ call' = [call EXCEPT !.pc = "signOut",
                                     !.error = "Failed to create user profile"]
             /\ UNCHANGED dbVars
        ELSE IF call.id \in DOMAIN users
        THEN /\ call' = IF call.id \in Visible(DB, Client, "users")
                        THEN [call EXCEPT !.pc = "setUser"]
                        ELSE [call EXCEPT !.pc = "signOut",
                                          !.error = "Profile creation failed"]
             /\ UNCHANGED dbVars
        ELSE /\ SetDB(d2)
             /\ call' = IF call.id \in DOMAIN d2.users
                        THEN [call EXCEPT !.pc = "setUser"]
                        ELSE [call EXCEPT !.pc = "signOut",
                                          !.error = "Failed to create user profile"]
  /\ UNCHANGED <<migVars, form, submit, regVars, session, user, fetches>>

\* await supabase.auth.signOut() before the throw; its error is not looked
\* at.
SignUpSignOut(lost) ==
  /\ call.pc = "signOut"
  /\ call.error \in {"Profile creation failed", "Failed to create user profile"}
  /\ IF lost
     THEN UNCHANGED <<session, user, fetches>>
     ELSE /\ session' = NoUser
          /\ OnAuthStateChange(NoUser)
  /\ call' = [call EXCEPT !.pc = "thrown"]
  /\ UNCHANGED <<migVars, form, dbVars, submit, regVars>>

\* setUser(profile), then the test of the role and of email_confirmed_at.
SignUpSetUser ==
  /\ call.pc = "setUser"
  /\ user' = call.id
  /\ call' = IF call.role = "BUSINESS_OWNER" /\ ~call.confirmed
             THEN [call EXCEPT !.pc = "thrown", !.error = VerifyBeforeContinuing]
             ELSE [call EXCEPT !.pc = "returned"]
  /\ UNCHANGED <<migVars, form, dbVars, submit, regVars, session, fetches>>

SignUpNext ==
  \/ \E email \in Emails, role \in Roles, withSession, confirmed, trigger \in BOOLEAN :
       SignUpAuth(email, role, withSession, confirmed, trigger)
  \/ SignUpFirstRead
  \/ SignUpPoll
  \/ \E lost \in BOOLEAN : SignUpInsert(lost)
  \/ \E lost \in BOOLEAN : SignUpSignOut(lost)
  \/ SignUpSetUser
  \/ \E u \in fetches, served \in BOOLEAN : ProfileArrives(u, served)
  \/ SignOut

SpecSignUp == RegInit /\ [][SignUpNext]_vars

\* C23: whenever signUp has thrown, the context user is null.
C23_ThrowLeavesUserNull ==
  call.pc = "thrown" => user = NoUser

-----------------------------------------------------------------------------
(* Late answers to the profile requests of the callback                    *)

\* C24: once the session is gone (signOut, or the signOut inside a rejected
\* signIn, has completed), no call of the context is running and every
\* profile request the callback started has been answered, the context user
\* is null.
C24_SignedOutUserIsNull ==
  (session = NoUser /\ NoCallRunning /\ fetches = {}) => user = NoUser

-----------------------------------------------------------------------------
(* Saving the booking settings of a business that has a row                *)

SettingsOf(d, biz) ==
  {i \in DOMAIN d.booking_settings : d.booking_settings[i].business_id = biz}

\* C25: when the business of the Settings page's user has a
\* booking_settings row, handleSaveBookingSettings (its request answered)
\* reports success and leaves exactly one row of the business, holding the
\* submitted values; the same save once more leaves the database unchanged.
C25_SaveOverExistingRow ==
  (/\ form.page = "settings"
   /\ users[form.user].business_id # NULL
   /\ SettingsOf(DB, users[form.user].business_id) # {}) =>
    LET biz == users[form.user].business_id
        r == SettingsSave(DB, form, FALSE)
    IN /\ r.form.success = "Booking settings saved successfully"
       /\ Cardinality(SettingsOf(r.db, biz)) = 1
       /\ \A i \in SettingsOf(r.db, biz) :
            r.db.booking_settings[i].deposit_percentage
              = SettingsPayload(DB, form).deposit_percentage
       /\ SettingsSave(r.db, r.form, FALSE).db = r.db

-----------------------------------------------------------------------------
(* What saving the notification preferences leaves alone                   *)

\* The Settings page with both of its save buttons, for the owners and the
\* staff member of two businesses.
NotifyNext ==
  \/ \E u \in DOMAIN users : SettingsOpen(u)
  \/ \E text \in DepositTexts : SettingsChangeDeposit(text)
  \/ SettingsToggleNotifications
  \/ \E lost \in BOOLEAN : HandleSaveBookingSettings(lost)
  \/ \E lostUpsert \in BOOLEAN, lostUpdate \in BOOLEAN :
       HandleSaveNotifications(lostUpsert, lostUpdate)
  \/ SettingsLeave

SpecNotify == RlsInit /\ [][NotifyNext]_vars

\* C26: whatever the answers to its requests, handleSaveNotifications
\* changes no table but booking_settings; it deletes no row; every stored
\* row of another business stays as it is; a stored row of the user's
\* business changes in its notification columns only, the booking settings
\* (here deposit_percentage) keeping their values; and a row is added only
\* for the user's business and only when it had none.
C26_NotificationsFrame ==
  (form.page = "settings" /\ users[form.user].business_id # NULL) =>
    \A lostUpsert \in BOOLEAN, lostUpdate \in BOOLEAN :
      LET biz == users[form.user].business_id
          r == NotificationsSave(DB, form, lostUpsert, lostUpdate)
          after == r.db.booking_settings
      IN /\ r.db = [DB EXCEPT !.booking_settings = after]
         /\ \A i \in DOMAIN booking_settings :
              /\ i \in DOMAIN after
              /\ IF booking_settings[i].business_id = biz
                 THEN SameBut(after[i], booking_settings[i], {"email_notifications"})
                 ELSE after[i] = booking_settings[i]
         /\ \A i \in DOMAIN after \ DOMAIN booking_settings :
              after[i].business_id = biz /\ SettingsOf(DB, biz) = {}

\* Owner o1 has saved notification preferences that differ from the
\* default over a row whose deposit_percentage is 50, which it still is;
\* business 2 has a row of its own.
C26_Witness ==
  /\ form.page = "settings" /\ form.user = "o1"
  /\ form.success = "Notification preferences saved successfully"
  /\ \E i \in SettingsOf(DB, 1) :
       /\ booking_settings[i].deposit_percentage = 50
       /\ ~booking_settings[i].email_notifications
  /\ SettingsOf(DB, 2) # {}

-----------------------------------------------------------------------------
(* The list of the Bookings page and its loadBookings requests             *)

\* loadBookings requests that may be in flight at once.
MaxLoads == 2

\* What a loadBookings request returns when it is served on database d.
Snapshot(d, u) == [b \in PageBookings(d, u) |-> d.bookings[b]]

Requested == [served |-> FALSE, rows |-> EmptyTable]

\* loadBookings() is called and not awaited: one more request in flight.
LoadBookings(f) == [f EXCEPT !.loads = f.loads \cup {Requested}]

\* The page is mounted: the effect calls loadBookings.
BookingsOpen(u) ==
  /\ form = NoForm
  /\ u \in DOMAIN users
  /\ users[u].business_id # NULL
  /\ form' = LoadBookings([page |-> "bookings", user |-> u, list |-> EmptyTable,
                           loads |-> {}])
  /\ UNCHANGED <<migVars, dbVars, submit, regVars, authVars>>

\* The database answers a loadBookings request with the rows it holds then.
LoadServed ==
  /\ form.page = "bookings"
  /\ Requested \in form.loads
  /\ form' = [form EXCEPT !.loads = (form.loads \ {Requested})
                             \cup {[served |-> TRUE, rows |-> Snapshot(DB, form.user)]}]
  /\ UNCHANGED <<migVars, dbVars, submit, regVars, authVars>>

\* An answer arrives: setBookings(data || []).
LoadArrives(l) ==
  /\ form.page = "bookings"
  /\ l \in form.loads
  /\ l.served
  /\ form' = [form EXCEPT !.list = l.rows, !.loads = form.loads \ {l}]
  /\ UNCHANGED <<migVars, dbVars, submit, regVars, authVars>>

CanStart == form.page = "bookings" /\ Cardinality(form.loads) < MaxLoads

\* handleSubmit, create branch, then handleCloseModal and loadBookings.
ListCreate(c, s, start, lost) ==
  /\ CanStart
  /\ c \in FormCustomers(DB, form.user)
  /\ s \in FormServices(DB, form.user)
  /\ LET r == CreateBooking(DB, form.user, c, s, start, lost, FALSE, FALSE)
     IN /\ SetDB(r.db)
        /\ form' = IF r.out.state = "saved" THEN LoadBookings(form) ELSE form
  /\ submit' = NoSubmit
  /\ UNCHANGED <<migVars, regVars, authVars>>

\* A request for a listed booking: returns without error also when the row
\* is gone from the database.
OnListed(b, r) ==
  /\ CanStart
  /\ b \in DOMAIN form.list
  /\ SetDB(r.db)
  /\ form' = IF r.ok THEN LoadBookings(form) ELSE form
  /\ submit' = NoSubmit
  /\ UNCHANGED <<migVars, regVars, authVars>>

\* handleSubmit, edit branch: the form holds staff_id and status of the
\* listed row.
ListEdit(b, c, s, start) ==
  /\ form.page = "bookings"
  /\ b \in DOMAIN form.list
  /\ c \in FormCustomers(DB, form.user)
  /\ s \in FormServices(DB, form.user)
  /\ OnListed(b, Update(DB, form.user, "bookings", b,
                        [BookingData(DB, form.user, c, s, start) EXCEPT
                           !.staff_id = form.list[b].staff_id,
                           !.status = form.list[b].status]))

\* updateBookingStatus of a listed booking.
ListStatus(b, newStatus) ==
  /\ form.page = "bookings"
  /\ b \in DOMAIN form.list
  /\ OnListed(b, IF b \in DOMAIN bookings
                 THEN StatusUpdate(DB, form.user, b, newStatus)
                 ELSE Result(DB, TRUE, NULL, {}))

\* handleDelete of a listed booking.
ListDelete(b) ==
  /\ form.page = "bookings"
  /\ OnListed(b, Delete(DB, form.user, "bookings", b))

ListNext ==
  \/ \E u \in DOMAIN users : BookingsOpen(u)
  \/ LoadServed
  \/ form.page = "bookings" /\ \E l \in form.loads : LoadArrives(l)
  \/ \E c \in DOMAIN customers, s \in DOMAIN services, start \in StartTimes,
        lost \in BOOLEAN : ListCreate(c, s, start, lost)
  \/ \E b \in 1 .. MaxBookings, c \in DOMAIN customers, s \in DOMAIN services,
        start \in StartTimes : ListEdit(b, c, s, start + 1)
  \/ \E b \in 1 .. MaxBookings : ListStatus(b, "CONFIRMED")
  \/ \E b \in 1 .. MaxBookings : ListDelete(b)

SpecList == OverlapInit /\ [][ListNext]_vars

\* C27: on the Bookings page, whenever no loadBookings request is in
\* flight, the displayed list is the bookings the database holds for the
\* user's business.
C27_ListMatchesDatabase ==
  (form.page = "bookings" /\ form.loads = {}) =>
    form.list = Snapshot(DB, form.user)

====
